---- MODULE Spec2Model ----
(***************************************************************************)
(* EduCom: the persistent record store (services/storage), the quiz        *)
(* session (views/Quiz.tsx) and the learning session                       *)
(* (views/ChapterLearn.tsx), modelled as state machines.                   *)
(*                                                                         *)
(* localStorage is modelled per item: an item is absent, holds JSON text   *)
(* that parses ("json", with the parsed value beside it) or holds bytes    *)
(* that do not parse ("corrupt").                                          *)
(***************************************************************************)
EXTENDS Integers, Sequences, FiniteSets, TLC

VARIABLES
  progressItem,          \* localStorage["gseb_commerce_app_progress"]
  cacheItem,             \* localStorage["gseb_content_cache"]
  call,                  \* history: the last storage call, its arguments and the item before it
  route,                 \* App's selectedClass, the URL's subjectId and chapterId, the mounted view
  \* views/Quiz.tsx
  questions,
  loading,
  currentQuestionIndex,
  selectedOption,
  isAnswered,
  score,
  showResults,
  quizFetches,           \* generateChapterQuiz promises not yet settled
  quizHist,              \* history: answers submitted, and submitted correctly, since loadQuiz
  \* views/ChapterLearn.tsx
  topics,
  currentTopicIndex,
  content,
  sources,
  loadingContent,
  loadingSyllabus,
  readProgress,
  initializing,          \* initializingRef.current
  coldStarts,            \* initializeChapter runs suspended at the Promise.all of line 77
  contentFetches,        \* generateTopicExplanation promises of the content effect, not yet settled
  canon,                 \* history: the provider list and the topic list of the last cold start,
                         \* and the chapter the topic list in state was loaded for
  marks,                 \* history: the circumstances of each markChapterComplete call of the session
  step,                  \* history: the last event of the session, the cache lookups of its
                         \* content effect and the provider calls it issued
  \* views/Glossary.tsx
  selectedSubject,
  terms,
  glossaryLoading,       \* the loading state of Glossary
  glossaryFetches        \* generateSubjectGlossary promises not yet settled

storeVars == <<progressItem, cacheItem>>
quizVars == <<questions, loading, currentQuestionIndex, selectedOption, isAnswered,
              score, showResults, quizFetches, quizHist>>
learnVars == <<topics, currentTopicIndex, content, sources, loadingContent,
               loadingSyllabus, readProgress, initializing, coldStarts,
               contentFetches, canon, marks, step>>
glossaryVars == <<selectedSubject, terms, glossaryLoading, glossaryFetches>>
sessionVars == <<route, quizVars, learnVars, glossaryVars>>
vars == <<progressItem, cacheItem, call, route, quizVars, learnVars, glossaryVars>>

----------------------------------------------------------------------------
(* Values                                                                  *)

\* JavaScript null / undefined, as returned by the storage getters.
Null == [kind |-> "null"]

\* An object with no own property: {} .
EmptyObject == [k \in {} |-> Null]

\* obj[key] = value on a plain object.
SetProp(obj, key, value) ==
  [k \in (DOMAIN obj) \cup {key} |-> IF k = key THEN value ELSE obj[k]]

\* types.ts: ClassLevel, SubjectId, Chapter.id
ClassLevels == {11, 12}
SubjectIds == {"accounts"}
ChapterIds == {"ch1", "ch2"}

\* Array.prototype.includes on an array of strings.
Includes(arr, x) == \E i \in 1..Len(arr) : arr[i] = x

----------------------------------------------------------------------------
(* Progress record: services/storage Progress Management                   *)

\* `${classId}-${subjectId}-${chapterId}`
ProgressKey(classId, subjectId, chapterId) ==
  ToString(classId) \o "-" \o subjectId \o "-" \o chapterId

ProgressKeys ==
  {ProgressKey(c, s, ch) : c \in ClassLevels, s \in SubjectIds, ch \in ChapterIds}

\* types.ts QuizResult
QuizResult(resultScore, total, date) ==
  [score |-> resultScore, total |-> total, date |-> date]

AbsentItem == [st |-> "absent", val |-> Null]
CorruptItem == [st |-> "corrupt", val |-> Null]
JsonItem(v) == [st |-> "json", val |-> v]

\* The exception a JSON.parse of corrupt bytes raises.
Thrown == [kind |-> "throw"]

\* { completedChapters: [], quizScores: {} }
DefaultProgress ==
  [kind |-> "progress", completedChapters |-> <<>>, quizScores |-> EmptyObject]

\* localStorage.setItem(STORAGE_KEY, JSON.stringify(progress))
saveProgress(progress) == JsonItem(progress)

\* data ? JSON.parse(data) : null
loadProgress(item) ==
  CASE item.st = "absent" -> Null
    [] item.st = "json" -> item.val
    [] OTHER -> Thrown

\* loadProgress() || { completedChapters: [], quizScores: {} }
CurrentProgress(item) ==
  IF loadProgress(item) = Null THEN DefaultProgress ELSE loadProgress(item)

\* A plausible slip: the includes() test dropped.
markChapterComplete_noCheck(item, classId, subjectId, chapterId) ==
  IF loadProgress(item) = Thrown THEN item
  ELSE LET current == CurrentProgress(item)
           key == ProgressKey(classId, subjectId, chapterId)
       IN saveProgress([current EXCEPT !.completedChapters = Append(@, key)])

\* A plausible slip: a key already present is moved to the end of the list
\* and the record written again.
markChapterComplete_moveToEnd(item, classId, subjectId, chapterId) ==
  IF loadProgress(item) = Thrown THEN item
  ELSE LET current == CurrentProgress(item)
           key == ProgressKey(classId, subjectId, chapterId)
           others == SelectSeq(current.completedChapters, LAMBDA k : k # key)
       IN saveProgress([current EXCEPT !.completedChapters = Append(others, key)])

\* The item after markChapterComplete(classId, subjectId, chapterId); a parse
\* error leaves the function before any write.
markChapterComplete(item, classId, subjectId, chapterId) ==
  IF loadProgress(item) = Thrown THEN item
  ELSE LET current == CurrentProgress(item)
           key == ProgressKey(classId, subjectId, chapterId)
       IN IF ~Includes(current.completedChapters, key)
          THEN saveProgress([current EXCEPT !.completedChapters = Append(@, key)])
          ELSE item

\* A plausible slip: the first score of a chapter is kept.
saveQuizScore_keepFirst(item, classId, subjectId, chapterId, result) ==
  IF loadProgress(item) = Thrown THEN item
  ELSE LET current == CurrentProgress(item)
           key == ProgressKey(classId, subjectId, chapterId)
       IN IF key \in DOMAIN current.quizScores
          THEN saveProgress(current)
          ELSE saveProgress([current EXCEPT !.quizScores = SetProp(@, key, result)])

\* A plausible slip: the record is rebuilt from the defaults.
saveQuizScore_dropCompleted(item, classId, subjectId, chapterId, result) ==
  IF loadProgress(item) = Thrown THEN item
  ELSE LET current == CurrentProgress(item)
           key == ProgressKey(classId, subjectId, chapterId)
       IN saveProgress([DefaultProgress EXCEPT
                          !.quizScores = SetProp(current.quizScores, key, result)])

\* The item after saveQuizScore(classId, subjectId, chapterId, result).
saveQuizScore(item, classId, subjectId, chapterId, result) ==
  IF loadProgress(item) = Thrown THEN item
  ELSE LET current == CurrentProgress(item)
           key == ProgressKey(classId, subjectId, chapterId)
       IN saveProgress([current EXCEPT !.quizScores = SetProp(@, key, result)])

----------------------------------------------------------------------------
(* Content cache: services/storage Content Caching                         *)

\* if (jsonString.length > 4500000)
Ceiling == 4500000

\* JSON.stringify(s).length of a string without characters to escape.
JsonStringLen(s) == Len(s) + 2

RECURSIVE SumSeq(_)
SumSeq(ns) == IF ns = <<>> THEN 0 ELSE Head(ns) + SumSeq(Tail(ns))

\* JSON.stringify(a).length of an array whose elements serialize to lens[i].
JsonArrayLen(lens) ==
  2 + SumSeq(lens) + (IF Len(lens) > 0 THEN Len(lens) - 1 ELSE 0)

\* JSON.stringify(v).length of a cached artifact.  A generated text is held
\* as its identity and its length (text.len characters, quotes excluded).
JsonLen(v) ==
  CASE v.kind = "syllabus" ->
         JsonArrayLen([i \in 1..Len(v.topics) |-> JsonStringLen(v.topics[i])])
    [] v.kind = "explanation" ->
         \* {"content":"...","sources":[...]}
         Len("{\"content\":") + (v.content.len + 2) + Len(",\"sources\":")
           + JsonArrayLen([i \in 1..Len(v.sources) |-> v.sources[i].len]) + 1
    [] v.kind = "quiz" ->
         JsonArrayLen([i \in 1..Len(v.questions) |-> v.questions[i].len])
    [] v.kind = "glossary" ->
         JsonArrayLen([i \in 1..Len(v.terms) |-> v.terms[i].len])
    [] OTHER -> Len("null")

RECURSIVE SumOver(_, _)
SumOver(obj, keys) ==
  IF keys = {} THEN 0
  ELSE LET k == CHOOSE x \in keys : TRUE
       IN (JsonStringLen(k) + 1 + JsonLen(obj[k])) + SumOver(obj, keys \ {k})

\* JSON.stringify(currentCache).length: {"k1":v1,"k2":v2}
StringifyLen(obj) ==
  2 + SumOver(obj, DOMAIN obj)
    + (IF DOMAIN obj = {} THEN 0 ELSE Cardinality(DOMAIN obj) - 1)

\* JSON.parse(localStorage.getItem(CONTENT_CACHE_KEY) || '{}')
ParseCache(item) ==
  CASE item.st = "absent" -> EmptyObject
    [] item.st = "json" -> item.val
    [] OTHER -> Thrown

\* JavaScript truthiness of a stored value: arrays (the empty one too) and
\* objects are truthy, null is not.
Truthy(v) == v.kind # "null"

\* A plausible slip: an entry already cached is not overwritten.
saveCachedContent_keepOld(item, key, data) ==
  IF item.st = "corrupt" THEN item
  ELSE LET old == ParseCache(item)
           currentCache == IF key \in DOMAIN old THEN old ELSE SetProp(old, key, data)
       IN IF StringifyLen(currentCache) > Ceiling
          THEN JsonItem(SetProp(EmptyObject, key, data))
          ELSE JsonItem(currentCache)

\* A plausible slip: on overflow only the other entries are dropped one by
\* one until the container fits (partial eviction instead of the full flush).
saveCachedContent_partial(item, key, data) ==
  IF item.st = "corrupt" THEN item
  ELSE LET currentCache == SetProp(ParseCache(item), key, data)
           others == (DOMAIN currentCache) \ {key}
           victim == CHOOSE x \in others : TRUE
       IN IF StringifyLen(currentCache) > Ceiling /\ others # {}
          THEN JsonItem([k \in (DOMAIN currentCache) \ {victim} |-> currentCache[k]])
          ELSE JsonItem(currentCache)

\* The item after saveCachedContent(key, data).  A parse error is caught
\* (line 57) before anything is written.
saveCachedContent(item, key, data) ==
  IF item.st = "corrupt" THEN item
  ELSE LET currentCache == SetProp(ParseCache(item), key, data)
       IN IF StringifyLen(currentCache) > Ceiling
          THEN JsonItem(SetProp(EmptyObject, key, data))
          ELSE JsonItem(currentCache)

\* A plausible slip: the read without its try/catch.
getCachedContent_unguarded(item, key) ==
  IF item.st = "corrupt" THEN Thrown
  ELSE LET currentCache == ParseCache(item)
       IN IF key \in DOMAIN currentCache /\ Truthy(currentCache[key])
          THEN currentCache[key]
          ELSE Null

\* currentCache[key] as T || null, null on a parse error.
getCachedContent(item, key) ==
  IF item.st = "corrupt" THEN Null
  ELSE LET currentCache == ParseCache(item)
       IN IF key \in DOMAIN currentCache /\ Truthy(currentCache[key])
          THEN currentCache[key]
          ELSE Null

\* `syllabus_${selectedClass}_${subject.id}_${chapter.id}`
SyllabusKey(classId, subjectId, chapterId) ==
  "syllabus_" \o ToString(classId) \o "_" \o subjectId \o "_" \o chapterId

\* `content_${selectedClass}_${subject.id}_${chapter.id}_${currentTopicIndex}`
ContentKey(classId, subjectId, chapterId, index) ==
  "content_" \o ToString(classId) \o "_" \o subjectId \o "_" \o chapterId
    \o "_" \o ToString(index)

\* `quiz_${selectedClass}_${subject.id}_${chapter.id}`
QuizKey(classId, subjectId, chapterId) ==
  "quiz_" \o ToString(classId) \o "_" \o subjectId \o "_" \o chapterId

\* Whether saveCachedContent(key, data) on `item` takes the overflow branch.
Overflows(item, key, data) ==
  item.st # "corrupt" /\ StringifyLen(SetProp(ParseCache(item), key, data)) > Ceiling

NoCall == [op |-> "none"]

Text(id, len) == [id |-> id, len |-> len]

Syllabus(topicList) == [kind |-> "syllabus", topics |-> topicList]
Explanation(body, cited) ==
  [kind |-> "explanation", content |-> body, sources |-> cited]

----------------------------------------------------------------------------
(* views/Quiz.tsx.  A handler runs to its end, React re-renders, and only  *)
(* then the next event is taken: a handler reads the state of the render   *)
(* before it.  An event is enabled when the rendered view offers its       *)
(* control.                                                                *)

NoRoute == [view |-> "none", selectedClass |-> 12, subjectId |-> "accounts",
            chapterId |-> "ch1", mounted |-> FALSE, opens |-> 0]

\* useState<number | null>(null): no option selected.
NoOption == -1

\* QuizQuestion.correctAnswer: "Index 0-3", an index into the 4 options.
OptionCount == 4

\* The longest question list the provider returns here.
MaxQuestions == 2

\* A question: its correct index and the length of its JSON text.
Question(correctAnswer) == [correctAnswer |-> correctAnswer, len |-> 400]

QuestionLists ==
  UNION {[1..n -> {Question(a) : a \in 0..(OptionCount - 1)}] : n \in 0..MaxQuestions}

QuizArtifact(qs) == [kind |-> "quiz", questions |-> qs]

\* The instants new Date().toISOString() may return.
Dates == {"2025-01-01T00:00:00.000Z", "2025-01-02T00:00:00.000Z"}

\* The class switches made while a quiz is shown.
MaxQuizLoads == 1

\* useState initial values, lines 20-26.
QuizConstructed ==
  /\ questions = <<>>
  /\ loading = TRUE
  /\ currentQuestionIndex = 0
  /\ selectedOption = NoOption
  /\ isAnswered = FALSE
  /\ score = 0
  /\ showResults = FALSE
  /\ quizFetches = {}
  /\ quizHist = [submitted |-> 0, correct |-> 0]

\* A plausible slip: loadQuiz without setScore(0).
loadQuizAt_keepsScore(r) ==
  LET cacheKey == QuizKey(r.selectedClass, r.subjectId, r.chapterId)
      cachedData == getCachedContent(cacheItem, cacheKey)
  IN /\ showResults' = FALSE
     /\ currentQuestionIndex' = 0
     /\ UNCHANGED score
     /\ selectedOption' = NoOption
     /\ isAnswered' = FALSE
     /\ quizHist' = [submitted |-> 0, correct |-> 0]
     /\ IF Truthy(cachedData)
        THEN /\ questions' = cachedData.questions
             /\ loading' = FALSE
             /\ UNCHANGED quizFetches
        ELSE /\ questions' = <<>>
             /\ loading' = TRUE
             /\ quizFetches' = quizFetches \cup {[cacheKey |-> cacheKey]}
     /\ UNCHANGED <<storeVars, call>>
  /\ UNCHANGED <<learnVars, glossaryVars>>

\* loadQuiz, lines 36-67, as the closure of a render whose route is r:
\* reset, then the cached questions or a provider call.
loadQuizAt(r) ==
  LET cacheKey == QuizKey(r.selectedClass, r.subjectId, r.chapterId)
      cachedData == getCachedContent(cacheItem, cacheKey)
  IN /\ showResults' = FALSE
     /\ currentQuestionIndex' = 0
     /\ score' = 0
     /\ selectedOption' = NoOption
     /\ isAnswered' = FALSE
     /\ quizHist' = [submitted |-> 0, correct |-> 0]
     /\ IF Truthy(cachedData)
        THEN /\ questions' = cachedData.questions
             /\ loading' = FALSE
             /\ UNCHANGED quizFetches
        ELSE /\ questions' = <<>>
             /\ loading' = TRUE
             /\ quizFetches' = quizFetches \cup {[cacheKey |-> cacheKey]}
     /\ UNCHANGED <<storeVars, call>>
  /\ UNCHANGED <<learnVars, glossaryVars>>

\* loadQuiz of the render on screen.
loadQuiz == loadQuizAt(route)

\* The render reads questions[currentQuestionIndex] past the end of a
\* non-empty list (line 124 in the results view, line 221 in the question
\* view): it throws, and without an error boundary React unmounts the tree.
\* No button is left; a call in flight still runs its continuation, whose
\* state updates are dropped.
QuizRenderThrows ==
  /\ route.view = "quiz" /\ route.mounted
  /\ ~loading /\ Len(questions) > 0
  /\ currentQuestionIndex >= Len(questions)

\* The mount effect, lines 31-34.
QuizMount ==
  /\ route.view = "quiz" /\ ~route.mounted
  /\ route' = [route EXCEPT !.mounted = TRUE]
  /\ loadQuiz

\* The class switcher of the layout (part_001 lines 107 and 117) used while
\* the quiz is shown: the component stays mounted, renders with the other
\* class, and the effect of lines 31-34 runs loadQuiz for it.  The call of
\* the class left goes on.
QuizSelectClass(classId) ==
  /\ route.view = "quiz" /\ route.mounted
  /\ ~QuizRenderThrows
  /\ classId # route.selectedClass
  /\ route.opens < MaxQuizLoads
  /\ LET moved == [route EXCEPT !.selectedClass = classId, !.opens = @ + 1]
     IN /\ route' = moved
        /\ loadQuizAt(moved)

\* The "Try Again" button of the results view (line 169) and the "Retry"
\* button of the no-questions view (line 118).
RetryQuiz ==
  /\ route.view = "quiz" /\ route.mounted
  /\ ~QuizRenderThrows
  /\ ~loading
  /\ questions = <<>> \/ showResults
  /\ UNCHANGED route
  /\ loadQuiz

\* A plausible slip: the list is cached whatever its length.
CacheQuestions_always(item, cacheKey, qs) ==
  saveCachedContent(item, cacheKey, QuizArtifact(qs))

\* Lines 56-58: if (qs.length > 0) saveCachedContent(cacheKey, qs)
CacheQuestions(item, cacheKey, qs) ==
  IF Len(qs) > 0 THEN saveCachedContent(item, cacheKey, QuizArtifact(qs)) ELSE item

\* A plausible slip: setLoading(false) inside the test of line 56.
QuizFetchResolve_emptyKeepsLoading(p, qs) ==
  /\ p \in quizFetches
  /\ quizFetches' = quizFetches \ {p}
  /\ IF QuizRenderThrows
     THEN UNCHANGED <<questions, loading>>
     ELSE questions' = qs /\ loading' = (Len(qs) = 0 /\ loading)
  /\ cacheItem' = CacheQuestions(cacheItem, p.cacheKey, qs)
  /\ call' = IF Len(qs) > 0
             THEN [op |-> "saveCachedContent", key |-> p.cacheKey,
                   data |-> QuizArtifact(qs),
                   overflow |-> Overflows(cacheItem, p.cacheKey, QuizArtifact(qs)),
                   before |-> cacheItem]
             ELSE call
  /\ UNCHANGED <<progressItem, route, currentQuestionIndex, selectedOption,
                 isAnswered, score, showResults, quizHist>>
  /\ UNCHANGED <<learnVars, glossaryVars>>

\* generateChapterQuiz settles with qs (the empty list on a provider or parse
\* failure, part_001 lines 425-432): the .then of lines 54-60.
QuizFetchResolve(p, qs) ==
  /\ p \in quizFetches
  /\ quizFetches' = quizFetches \ {p}
  /\ IF QuizRenderThrows
     THEN UNCHANGED <<questions, loading>>
     ELSE questions' = qs /\ loading' = FALSE
  /\ cacheItem' = CacheQuestions(cacheItem, p.cacheKey, qs)
  /\ call' = IF Len(qs) > 0
             THEN [op |-> "saveCachedContent", key |-> p.cacheKey,
                   data |-> QuizArtifact(qs),
                   overflow |-> Overflows(cacheItem, p.cacheKey, QuizArtifact(qs)),
                   before |-> cacheItem]
             ELSE call
  /\ UNCHANGED <<progressItem, route, currentQuestionIndex, selectedOption,
                 isAnswered, score, showResults, quizHist>>
  /\ UNCHANGED <<learnVars, glossaryVars>>

\* A plausible slip: the question view rendered without the length test of
\* line 113.
QuestionView_ignoresEmpty ==
  /\ route.view = "quiz" /\ route.mounted
  /\ ~loading /\ ~showResults

\* The question view is rendered: lines 103, 113, 123 passed.
QuestionView ==
  /\ route.view = "quiz" /\ route.mounted
  /\ ~loading /\ Len(questions) > 0 /\ ~showResults
  /\ ~QuizRenderThrows

\* questions[currentQuestionIndex].correctAnswer
CorrectAnswer == questions[currentQuestionIndex + 1].correctAnswer

\* A plausible slip: handleOptionSelect without its isAnswered test.
HandleOptionSelect_afterAnswer(index) ==
  /\ QuestionView
  /\ selectedOption' = index
  /\ UNCHANGED <<storeVars, call, route, questions, loading, currentQuestionIndex,
                 isAnswered, score, showResults, quizFetches, quizHist>>
  /\ UNCHANGED <<learnVars, glossaryVars>>

\* handleOptionSelect, lines 69-72; the option buttons are disabled once answered.
HandleOptionSelect(index) ==
  /\ QuestionView
  /\ ~isAnswered
  /\ selectedOption' = index
  /\ UNCHANGED <<storeVars, call, route, questions, loading, currentQuestionIndex,
                 isAnswered, score, showResults, quizFetches, quizHist>>
  /\ UNCHANGED <<learnVars, glossaryVars>>

\* A plausible slip: the correct answer taken as a 1-based option number.
SubmitScore_oneBased(s, selected, correct) ==
  IF selected + 1 = correct THEN s + 1 ELSE s

\* Lines 78-80: the running score after a submit.
SubmitScore(s, selected, correct) ==
  IF selected = correct THEN s + 1 ELSE s

\* A plausible slip: the submit button left in place once the question is
\* answered.
HandleSubmitAnswer_again ==
  /\ QuestionView
  /\ IF selectedOption = NoOption
     THEN UNCHANGED <<isAnswered, score, quizHist>>
     ELSE /\ isAnswered' = TRUE
          /\ score' = SubmitScore(score, selectedOption, CorrectAnswer)
          /\ quizHist' = [submitted |-> quizHist.submitted + 1,
                          correct |-> quizHist.correct
                                        + (IF selectedOption = CorrectAnswer THEN 1 ELSE 0)]
  /\ UNCHANGED <<storeVars, call, route, questions, loading, currentQuestionIndex,
                 selectedOption, showResults, quizFetches>>
  /\ UNCHANGED <<learnVars, glossaryVars>>

\* A plausible slip: handleSubmitAnswer without its selectedOption test.
HandleSubmitAnswer_noSelection ==
  /\ QuestionView
  /\ ~isAnswered
  /\ isAnswered' = TRUE
  /\ score' = SubmitScore(score, selectedOption, CorrectAnswer)
  /\ quizHist' = [submitted |-> quizHist.submitted + 1,
                  correct |-> quizHist.correct
                                + (IF selectedOption = CorrectAnswer THEN 1 ELSE 0)]
  /\ UNCHANGED <<storeVars, call, route, questions, loading, currentQuestionIndex,
                 selectedOption, showResults, quizFetches>>
  /\ UNCHANGED <<learnVars, glossaryVars>>

\* handleSubmitAnswer, lines 74-81; the button is rendered while unanswered
\* (line 310).
HandleSubmitAnswer ==
  /\ QuestionView
  /\ ~isAnswered
  /\ IF selectedOption = NoOption
     THEN UNCHANGED <<isAnswered, score, quizHist>>
     ELSE /\ isAnswered' = TRUE
          /\ score' = SubmitScore(score, selectedOption, CorrectAnswer)
          /\ quizHist' = [submitted |-> quizHist.submitted + 1,
                          correct |-> quizHist.correct
                                        + (IF selectedOption = CorrectAnswer THEN 1 ELSE 0)]
  /\ UNCHANGED <<storeVars, call, route, questions, loading, currentQuestionIndex,
                 selectedOption, showResults, quizFetches>>
  /\ UNCHANGED <<learnVars, glossaryVars>>

\* Line 92: the score of the committed QuizResult.
CommittedScore(s, selected, correct) ==
  s + (IF selected = correct THEN 1 ELSE 0)

\* Line 93: the total of the committed QuizResult.
CommittedTotal(qs) == Len(qs)

\* A plausible slip: the advance that keeps the tentative choice.
HandleNextQuestion_keepsChoice ==
  /\ QuestionView
  /\ isAnswered
  /\ IF currentQuestionIndex < Len(questions) - 1
     THEN /\ currentQuestionIndex' = currentQuestionIndex + 1
          /\ isAnswered' = FALSE
          /\ UNCHANGED <<storeVars, call, showResults, selectedOption>>
     ELSE \E date \in Dates :
          LET result == QuizResult(CommittedScore(score, selectedOption, CorrectAnswer),
                                   CommittedTotal(questions), date)
          IN /\ showResults' = TRUE
             /\ progressItem' = saveQuizScore(progressItem, route.selectedClass,
                                              route.subjectId, route.chapterId, result)
             /\ call' = [op |-> "saveQuizScore",
                         key |-> ProgressKey(route.selectedClass, route.subjectId,
                                             route.chapterId),
                         result |-> result, before |-> progressItem]
             /\ UNCHANGED <<cacheItem, currentQuestionIndex, selectedOption, isAnswered>>
  /\ UNCHANGED <<route, questions, loading, score, quizFetches, quizHist>>
  /\ UNCHANGED <<learnVars, glossaryVars>>

\* handleNextQuestion, lines 83-99; the button is rendered once answered
\* (line 323).
HandleNextQuestion ==
  /\ QuestionView
  /\ isAnswered
  /\ IF currentQuestionIndex < Len(questions) - 1
     THEN /\ currentQuestionIndex' = currentQuestionIndex + 1
          /\ selectedOption' = NoOption
          /\ isAnswered' = FALSE
          /\ UNCHANGED <<storeVars, call, showResults>>
     ELSE \E date \in Dates :
          LET result == QuizResult(CommittedScore(score, selectedOption, CorrectAnswer),
                                   CommittedTotal(questions), date)
          IN /\ showResults' = TRUE
             /\ progressItem' = saveQuizScore(progressItem, route.selectedClass,
                                              route.subjectId, route.chapterId, result)
             /\ call' = [op |-> "saveQuizScore",
                         key |-> ProgressKey(route.selectedClass, route.subjectId,
                                             route.chapterId),
                         result |-> result, before |-> progressItem]
             /\ UNCHANGED <<cacheItem, currentQuestionIndex, selectedOption, isAnswered>>
  /\ UNCHANGED <<route, questions, loading, score, quizFetches, quizHist>>
  /\ UNCHANGED <<learnVars, glossaryVars>>

----------------------------------------------------------------------------
(* views/Glossary.tsx                                                      *)

\* The subjects of the filter tabs; the first one is selected at construction.
GlossarySubjects == {"accounts", "stats"}

\* `glossary_${selectedClass}_${subId}`
GlossaryKey(classId, subId) == "glossary_" \o ToString(classId) \o "_" \o subId

\* The longest term list the provider returns here.
MaxTerms == 2

\* A glossary term generated for a class and a subject, with the length of
\* its JSON text.
GlossaryTerm(classId, subId) ==
  [term |-> "term", definition |-> GlossaryKey(classId, subId), len |-> 300]

\* generateSubjectGlossary, part_001 lines 444-490: the parsed list, or the
\* empty list when the response is empty or the call fails.
TermLists(classId, subId) ==
  UNION {[1..n -> {GlossaryTerm(classId, subId)}] : n \in 0..MaxTerms}

GlossaryArtifact(ts) == [kind |-> "glossary", terms |-> ts]

\* useState initial values, lines 17-20.
GlossaryConstructed ==
  /\ selectedSubject = "accounts"
  /\ terms = <<>>
  /\ glossaryLoading = FALSE
  /\ glossaryFetches = {}

\* fetchTerms up to its await, lines 27-39, for class classId.
fetchTerms(classId, subId) ==
  LET key == GlossaryKey(classId, subId)
      cached == getCachedContent(cacheItem, key)
  IN IF Truthy(cached)
     THEN /\ terms' = cached.terms
          /\ UNCHANGED <<glossaryLoading, glossaryFetches>>
     ELSE /\ glossaryLoading' = TRUE
          /\ glossaryFetches' =
               glossaryFetches \cup {[key |-> key, classId |-> classId, subId |-> subId]}
          /\ UNCHANGED terms

\* The mount effect, lines 22-25.
GlossaryMount ==
  /\ route.view = "glossary" /\ ~route.mounted
  /\ route' = [route EXCEPT !.mounted = TRUE]
  /\ fetchTerms(route.selectedClass, selectedSubject)
  /\ UNCHANGED <<storeVars, call, selectedSubject, quizVars, learnVars>>

\* A click on a subject tab, line 81, and the effect it causes when the
\* subject changes.
SelectSubject(subId) ==
  /\ route.view = "glossary" /\ route.mounted
  /\ subId # selectedSubject
  /\ selectedSubject' = subId
  /\ fetchTerms(route.selectedClass, subId)
  /\ UNCHANGED <<storeVars, call, route, quizVars, learnVars>>

\* A click on a class button of the layout (part_001 lines 107, 117) while
\* the glossary is shown, and the effect it causes when the class changes.
GlossarySelectClass(classId) ==
  /\ route.view = "glossary" /\ route.mounted
  /\ classId # route.selectedClass
  /\ route' = [route EXCEPT !.selectedClass = classId]
  /\ fetchTerms(classId, selectedSubject)
  /\ UNCHANGED <<storeVars, call, selectedSubject, quizVars, learnVars>>

\* Lines 41-43: if (newTerms.length > 0) saveCachedContent(key, newTerms)
CacheTerms(item, key, newTerms) ==
  IF Len(newTerms) > 0 THEN saveCachedContent(item, key, GlossaryArtifact(newTerms))
  ELSE item

\* fetchTerms after its await, lines 39-45: generateSubjectGlossary of fetch
\* f settles with newTerms.
GlossaryFetchResolve(f, newTerms) ==
  /\ f \in glossaryFetches
  /\ glossaryFetches' = glossaryFetches \ {f}
  /\ cacheItem' = CacheTerms(cacheItem, f.key, newTerms)
  /\ terms' = newTerms
  /\ glossaryLoading' = FALSE
  /\ UNCHANGED <<progressItem, call, route, selectedSubject, quizVars, learnVars>>

----------------------------------------------------------------------------
(* views/ChapterLearn.tsx.                                                 *)
(*                                                                         *)
(* React runs the effects of a commit in the order they are declared, each *)
(* with the state of the render it belongs to; a state set by an effect is *)
(* seen by the next render only.  An effect runs when one of its           *)
(* dependencies differs from the previous render.  An event (a click, a    *)
(* settled promise) is taken with every render and effect it causes.       *)

\* A JavaScript number that is a ratio of integers, in lowest terms.
RECURSIVE Gcd(_, _)
Gcd(a, b) == IF b = 0 THEN a ELSE Gcd(b, a % b)

Abs(n) == IF n < 0 THEN -n ELSE n

Ratio(n, d) ==
  LET g == Gcd(Abs(n), Abs(d))
      sign == IF d < 0 THEN -1 ELSE 1
  IN [num |-> sign * (n \div g), den |-> sign * (d \div g)]

Number(n) == [num |-> n, den |-> 1]

\* a <= b on such numbers.
Leq(a, b) == a.num * b.den <= b.num * a.den

\* useState("") : no text.
NoText == [id |-> "", len |-> 0]

\* Source, ExplanationResult.sources: one cited page, with the length of its JSON text.
Source(topic) == [uri |-> "https://gsebsolutions.com/" \o topic, len |-> 80]

\* The topic titles the provider may return.
Titles == {"Introduction", "INTRODUCTION", "introduction", "Basics"}

\* The longest topic list the provider returns here.
MaxTopics == 2

ProviderTopicLists == UNION {[1..n -> Titles] : n \in 0..MaxTopics}

\* getChapterSyllabus, lines 273-291: the parsed response, or a fallback list
\* when the response is empty or the call fails.
EmptyTextFallback == <<"Introduction", "Key Concepts", "Summary">>
ErrorFallback == <<"Overview", "Main Concepts", "Conclusion">>

\* The syllabus call of a cold start has not settled.
Pending == <<"(pending)">>

\* A parsed response that is no array of strings, on which line 83 throws.
\* The response schema of the call (an ARRAY of STRING, lines 268-271) rules
\* it out, and text that does not parse gives ErrorFallback, so it is no
\* outcome of the call; the catch of lines 96-100 has no other way in.
Malformed == <<"[object Object]">>

SyllabusOutcomes ==
  ProviderTopicLists \cup {EmptyTextFallback, ErrorFallback}

\* generateTopicExplanation, lines 336-372: the generated body with its
\* sources, or the error body with no source when the call fails.
ErrorText ==
  "## Error\nCould not generate content at this time. Please check your connection and try again."

\* The line break of the error text takes two characters in JSON.
ErrorBody == [id |-> ErrorText, len |-> Len(ErrorText) + 1]

\* Lengths of the bodies generated in a learning session.
LearnBodyLens == {1000, 2500000}

ExplanationOutcomes(topic) ==
  {Explanation(Text(topic, n), <<Source(topic)>>) : n \in LearnBodyLens}
    \cup {Explanation(ErrorBody, <<>>)}

\* String.prototype.toLowerCase on the titles above.
ToLowerCase(t) ==
  CASE t = "Introduction" -> "introduction"
    [] t = "INTRODUCTION" -> "introduction"
    [] t = "introduction" -> "introduction"
    [] t = "Basics" -> "basics"
    [] t = "Advanced" -> "advanced"
    [] t = "Key Concepts" -> "key concepts"
    [] t = "Summary" -> "summary"
    [] t = "Overview" -> "overview"
    [] t = "Main Concepts" -> "main concepts"
    [] t = "Conclusion" -> "conclusion"
    [] OTHER -> t

\* A plausible slip: the comparison without toLowerCase().
FilterTopics_caseSensitive(fetchedTopics) ==
  SelectSeq(fetchedTopics, LAMBDA t : t # "Introduction")

\* Line 83: fetchedTopics.filter(t => t.toLowerCase() !== "introduction")
RECURSIVE FilterTopics(_)
FilterTopics(fetchedTopics) ==
  IF fetchedTopics = <<>> THEN <<>>
  ELSE IF ToLowerCase(Head(fetchedTopics)) # "introduction"
       THEN <<Head(fetchedTopics)>> \o FilterTopics(Tail(fetchedTopics))
       ELSE FilterTopics(Tail(fetchedTopics))

\* Line 84: [firstTopicPlaceholder, ...filteredTopics]
FinalTopics(fetchedTopics) == <<"Introduction">> \o FilterTopics(fetchedTopics)

NoCanon == [fetched |-> <<>>, final |-> <<>>, done |-> FALSE, owner |-> ""]

\* An event of the session as the history notes it; detail is what the event
\* was given (a settled call's result, the syllabus found in the cache).
Step(ev, detail) == [ev |-> ev, detail |-> detail, lookups |-> {}, issued |-> {}]

NoStep == Step("none", Null)

\* useState initial values, lines 32-39, and the ref of line 45.
LearnConstructed ==
  /\ topics = <<>>
  /\ currentTopicIndex = 0
  /\ content = NoText
  /\ sources = <<>>
  /\ loadingContent = FALSE
  /\ loadingSyllabus = TRUE
  /\ readProgress = Number(0)
  /\ initializing = FALSE
  /\ coldStarts = {}
  /\ contentFetches = {}
  /\ canon = NoCanon
  /\ marks = {}
  /\ step = NoStep

\* The component's state, the store and the promises in flight as one value,
\* so that a handler and the effects after it compose.
World ==
  [topics |-> topics, currentTopicIndex |-> currentTopicIndex, content |-> content,
   sources |-> sources, loadingContent |-> loadingContent,
   loadingSyllabus |-> loadingSyllabus, readProgress |-> readProgress,
   initializing |-> initializing, coldStarts |-> coldStarts,
   contentFetches |-> contentFetches, canon |-> canon, marks |-> marks,
   step |-> step, cacheItem |-> cacheItem, progressItem |-> progressItem,
   route |-> route]

\* The world at the start of event ev.
At(ev, detail) == [World EXCEPT !.step = Step(ev, detail)]

\* The state, the store and the calls of w become the next state; the route
\* is set by the action itself.
Install(w) ==
  /\ topics' = w.topics
  /\ currentTopicIndex' = w.currentTopicIndex
  /\ content' = w.content
  /\ sources' = w.sources
  /\ loadingContent' = w.loadingContent
  /\ loadingSyllabus' = w.loadingSyllabus
  /\ readProgress' = w.readProgress
  /\ initializing' = w.initializing
  /\ coldStarts' = w.coldStarts
  /\ contentFetches' = w.contentFetches
  /\ canon' = w.canon
  /\ marks' = w.marks
  /\ step' = w.step
  /\ cacheItem' = w.cacheItem
  /\ progressItem' = w.progressItem

\* topics[index]; past the end of the array the value is undefined, which a
\* template string renders as "undefined".
TopicAt(topicList, index) ==
  IF index + 1 \in DOMAIN topicList THEN topicList[index + 1] ELSE "undefined"

\* A plausible slip: the content effect without setReadProgress(0).
ContentEffect_noReset(r, w) ==
  IF Len(r.topics) > 0
  THEN LET currentTopic == TopicAt(r.topics, r.currentTopicIndex)
           contentKey == ContentKey(w.route.selectedClass, w.route.subjectId,
                                    w.route.chapterId, r.currentTopicIndex)
           cachedData == getCachedContent(w.cacheItem, contentKey)
           fetch == [contentKey |-> contentKey, topic |-> currentTopic,
                     selectedClass |-> w.route.selectedClass,
                     subjectId |-> w.route.subjectId,
                     chapterId |-> w.route.chapterId,
                     index |-> r.currentTopicIndex, opening |-> w.route.opens,
                     live |-> TRUE]
       IN IF Truthy(cachedData)
          THEN [w EXCEPT !.content = cachedData.content,
                         !.sources = cachedData.sources,
                         !.loadingContent = FALSE,
                         !.step.lookups = @ \cup {[key |-> contentKey, hit |-> TRUE]}]
          ELSE [w EXCEPT !.loadingContent = TRUE,
                         !.contentFetches = @ \cup {fetch},
                         !.step.lookups = @ \cup {[key |-> contentKey, hit |-> FALSE]},
                         !.step.issued = @ \cup {fetch}]
  ELSE w

\* The content effect, lines 111-140, run for render r on world w: the cached
\* explanation of the current topic, or a provider call for it.
ContentEffect(r, w) ==
  IF Len(r.topics) > 0
  THEN LET currentTopic == TopicAt(r.topics, r.currentTopicIndex)
           contentKey == ContentKey(w.route.selectedClass, w.route.subjectId,
                                    w.route.chapterId, r.currentTopicIndex)
           cachedData == getCachedContent(w.cacheItem, contentKey)
           fetch == [contentKey |-> contentKey, topic |-> currentTopic,
                     selectedClass |-> w.route.selectedClass,
                     subjectId |-> w.route.subjectId,
                     chapterId |-> w.route.chapterId,
                     index |-> r.currentTopicIndex, opening |-> w.route.opens,
                     live |-> TRUE]
       IN IF Truthy(cachedData)
          THEN [w EXCEPT !.readProgress = Number(0),
                         !.content = cachedData.content,
                         !.sources = cachedData.sources,
                         !.loadingContent = FALSE,
                         !.step.lookups = @ \cup {[key |-> contentKey, hit |-> TRUE]}]
          ELSE [w EXCEPT !.loadingContent = TRUE,
                         !.readProgress = Number(0),
                         !.contentFetches = @ \cup {fetch},
                         !.step.lookups = @ \cup {[key |-> contentKey, hit |-> FALSE]},
                         !.step.issued = @ \cup {fetch}]
  ELSE w

\* Line 144: the test of the completion effect, on the state of render r.
CompletionCondition(r) ==
  /\ Len(r.topics) > 0
  /\ r.currentTopicIndex = Len(r.topics) - 1
  /\ ~r.loadingContent

\* Lines 145-146, run for render r on world w.  The history notes, for the
\* index and the topic list of the render, whether a provider call for that
\* index's content key is in flight and the LoadingContent flag as last set,
\* the chapter the render's topic list was loaded for and the chapter marked.
CompletionEffect(r, w) ==
  [w EXCEPT
     !.progressItem = markChapterComplete(@, w.route.selectedClass, w.route.subjectId,
                                          w.route.chapterId),
     !.marks = @ \cup
        {[index |-> r.currentTopicIndex,
          last |-> Len(r.topics) - 1,
          owner |-> r.canon.owner,
          chapter |-> SyllabusKey(w.route.selectedClass, w.route.subjectId,
                                  w.route.chapterId),
          inFlight |->
            \E f \in w.contentFetches :
              f.contentKey = ContentKey(w.route.selectedClass, w.route.subjectId,
                                        w.route.chapterId, r.currentTopicIndex),
          flag |-> w.loadingContent]}]

\* The renders and effects that follow a change of state: prev is the
\* previous render, w the world at the new render; topicsSet says setTopics
\* gave a new array, appRendered that App re-rendered and passed a new
\* onProgressUpdate (refreshProgress is a new closure on each App render,
\* part_000 line 46).  Ends when a render's effects change nothing.
RECURSIVE Commit(_, _, _, _)
Commit(prev, w, topicsSet, appRendered) ==
  LET runContent ==
        topicsSet \/ w.currentTopicIndex # prev.currentTopicIndex
      runCompletion ==
        \/ w.currentTopicIndex # prev.currentTopicIndex
        \/ Len(w.topics) # Len(prev.topics)
        \/ w.loadingContent # prev.loadingContent
        \/ appRendered
      w1 == IF runContent THEN ContentEffect(w, w) ELSE w
      fires == runCompletion /\ CompletionCondition(w)
      w2 == IF fires THEN CompletionEffect(w, w1) ELSE w1
  IN IF [w2 EXCEPT !.step = w.step] = w THEN w2 ELSE Commit(w, w2, FALSE, fires)

\* A plausible slip: the cached syllabus is found but the provider is asked
\* all the same.
InitializeChapter_alwaysCold(w) ==
  LET w1 == [w EXCEPT !.initializing = TRUE,
                      !.loadingSyllabus = TRUE,
                      !.currentTopicIndex = 0,
                      !.content = NoText,
                      !.sources = <<>>,
                      !.readProgress = Number(0)]
      syllabusKey == SyllabusKey(w.route.selectedClass, w.route.subjectId, w.route.chapterId)
      cachedSyllabus == getCachedContent(w.cacheItem, syllabusKey)
      hit == Truthy(cachedSyllabus) /\ Len(cachedSyllabus.topics) > 0
      coldStart == [selectedClass |-> w.route.selectedClass,
                    subjectId |-> w.route.subjectId,
                    chapterId |-> w.route.chapterId,
                    opening |-> w.route.opens,
                    fetchedTopics |-> Pending,
                    firstContentResult |-> Null,
                    live |-> TRUE]
  IN [set |-> FALSE,
      w |-> [w1 EXCEPT !.coldStarts = @ \cup {coldStart},
                       !.step = Step("open", [hit |-> hit,
                                              cached |-> cachedSyllabus,
                                              before |-> w.cacheItem])]]

\* initializeChapter up to its first await, lines 51-77, for the chapter of
\* the route: TRUE in .set when setTopics was called (cached syllabus).
InitializeChapter(w) ==
  LET w1 == [w EXCEPT !.initializing = TRUE,
                      !.loadingSyllabus = TRUE,
                      !.currentTopicIndex = 0,
                      !.content = NoText,
                      !.sources = <<>>,
                      !.readProgress = Number(0)]
      syllabusKey == SyllabusKey(w.route.selectedClass, w.route.subjectId, w.route.chapterId)
      cachedSyllabus == getCachedContent(w.cacheItem, syllabusKey)
      hit == Truthy(cachedSyllabus) /\ Len(cachedSyllabus.topics) > 0
      coldStart == [selectedClass |-> w.route.selectedClass,
                    subjectId |-> w.route.subjectId,
                    chapterId |-> w.route.chapterId,
                    opening |-> w.route.opens,
                    fetchedTopics |-> Pending,
                    firstContentResult |-> Null,
                    live |-> TRUE]
  IN [set |-> hit,
      w |-> IF hit
            THEN [w1 EXCEPT !.topics = cachedSyllabus.topics,
                            !.canon = [@ EXCEPT !.owner = syllabusKey],
                            !.loadingSyllabus = FALSE,
                            !.initializing = FALSE,
                            !.step = Step("open", [hit |-> TRUE,
                                                   cached |-> cachedSyllabus,
                                                   before |-> w.cacheItem])]
            ELSE [w1 EXCEPT !.coldStarts = @ \cup {coldStart},
                            !.step = Step("open", [hit |-> FALSE,
                                                   cached |-> cachedSyllabus,
                                                   before |-> w.cacheItem])]]

\* The mount: the first render's effects (the content and completion effects
\* find no topic), then the renders the initialization causes.
LearnMount ==
  /\ route.view = "learn" /\ ~route.mounted
  /\ LET opened == [route EXCEPT !.mounted = TRUE, !.opens = @ + 1]
         init == InitializeChapter([World EXCEPT !.route = opened])
     IN /\ route' = opened
        /\ Install(Commit(World, init.w, init.set, FALSE))
  /\ UNCHANGED <<call, quizVars, glossaryVars>>

\* A plausible slip: the first-topic result is not written to the cache.
ColdStartJoin_noSeed(w, c) ==
  LET syllabusKey == SyllabusKey(c.selectedClass, c.subjectId, c.chapterId)
      finalTopics == FinalTopics(c.fetchedTopics)
  IN [w EXCEPT !.cacheItem = saveCachedContent(@, syllabusKey, Syllabus(finalTopics)),
               !.topics = finalTopics,
               !.loadingSyllabus = FALSE,
               !.initializing = FALSE,
               !.canon = [fetched |-> c.fetchedTopics, final |-> finalTopics,
                          done |-> TRUE, owner |-> syllabusKey]]

\* initializeChapter after the await, lines 79-102, for cold start c whose
\* two calls have settled.
ColdStartJoin(w, c) ==
  LET syllabusKey == SyllabusKey(c.selectedClass, c.subjectId, c.chapterId)
      contentKey == ContentKey(c.selectedClass, c.subjectId, c.chapterId, 0)
      finalTopics == FinalTopics(c.fetchedTopics)
  IN IF c.fetchedTopics = Malformed
     THEN [w EXCEPT !.topics = <<"Detailed Explanation">>,
                    !.loadingSyllabus = FALSE,
                    !.initializing = FALSE,
                    !.canon = [@ EXCEPT !.owner = syllabusKey]]
     ELSE [w EXCEPT !.cacheItem =
                       saveCachedContent(
                         saveCachedContent(@, syllabusKey, Syllabus(finalTopics)),
                         contentKey, c.firstContentResult),
                    !.topics = finalTopics,
                    !.loadingSyllabus = FALSE,
                    !.initializing = FALSE,
                    !.canon = [fetched |-> c.fetchedTopics, final |-> finalTopics,
                               done |-> TRUE, owner |-> syllabusKey]]

\* One of the two calls of cold start c settles; the second to settle resumes
\* initializeChapter.
ColdStartSettled(c, c2) ==
  /\ c \in coldStarts
  /\ IF c2.fetchedTopics # Pending /\ c2.firstContentResult # Null
     THEN IF c.live
          THEN Install(Commit(World,
                              ColdStartJoin([At("join", c2) EXCEPT !.coldStarts = @ \ {c}],
                                            c2),
                              TRUE, FALSE))
          ELSE Install([At("detached", Null) EXCEPT
                          !.coldStarts = @ \ {c},
                          !.cacheItem = ColdStartJoin(World, c2).cacheItem])
     ELSE Install([At(IF c.live THEN "settle" ELSE "detached", Null) EXCEPT
                     !.coldStarts = (@ \ {c}) \cup {c2}])
  /\ UNCHANGED <<call, route, quizVars, glossaryVars>>

\* getChapterSyllabus of cold start c settles with fetched.
SyllabusSettles(c, fetched) ==
  /\ c \in coldStarts
  /\ c.fetchedTopics = Pending
  /\ ColdStartSettled(c, [c EXCEPT !.fetchedTopics = fetched])

\* generateTopicExplanation(..., "Introduction") of cold start c settles with result.
FirstContentSettles(c, result) ==
  /\ c \in coldStarts
  /\ c.firstContentResult = Null
  /\ ColdStartSettled(c, [c EXCEPT !.firstContentResult = result])

\* What a settling content fetch leaves: the fetch and its result.
Settling(f, result) == [fetch |-> f, result |-> result]

\* A plausible slip: the result saved under the key of the topic that is
\* current when the fetch settles.
ContentFetchSettles_currentKey(f, result) ==
  /\ f \in contentFetches
  /\ LET currentKey == ContentKey(route.selectedClass, route.subjectId,
                                  route.chapterId, currentTopicIndex)
     IN IF f.live
        THEN Install(Commit(World,
                            [At("content", Settling(f, result))
                               EXCEPT !.contentFetches = @ \ {f},
                                      !.content = result.content,
                                      !.sources = result.sources,
                                      !.cacheItem = saveCachedContent(@, currentKey, result),
                                      !.loadingContent = FALSE],
                            FALSE, FALSE))
        ELSE Install([At("detached", Settling(f, result))
                        EXCEPT !.contentFetches = @ \ {f},
                               !.cacheItem = saveCachedContent(@, currentKey, result)])
  /\ UNCHANGED <<call, route, quizVars, glossaryVars>>

\* The .then of lines 128-133 for content fetch f settling with result.
ContentFetchSettles(f, result) ==
  /\ f \in contentFetches
  /\ IF f.live
     THEN Install(Commit(World,
                         [At("content", Settling(f, result))
                            EXCEPT !.contentFetches = @ \ {f},
                                   !.content = result.content,
                                   !.sources = result.sources,
                                   !.cacheItem = saveCachedContent(@, f.contentKey, result),
                                   !.loadingContent = FALSE],
                         FALSE, FALSE))
     ELSE Install([At("detached", Settling(f, result))
                     EXCEPT !.contentFetches = @ \ {f},
                            !.cacheItem = saveCachedContent(@, f.contentKey, result)])
  /\ UNCHANGED <<call, route, quizVars, glossaryVars>>

\* The learning view is rendered and has been committed.
LearnView == route.view = "learn" /\ route.mounted

\* The chapters opened one after the other here.
MaxOpens == 2

\* The learner leaves the chapter (the links of lines 191 and 209) and the
\* component unmounts; the next mount constructs its state anew.  The calls
\* in flight go on: when they settle, their continuation writes the cache,
\* and its state updates fall on the unmounted component and are dropped.
LearnLeave ==
  /\ LearnView
  /\ route.opens < MaxOpens
  /\ route' = [route EXCEPT !.mounted = FALSE]
  /\ topics' = <<>>
  /\ currentTopicIndex' = 0
  /\ content' = NoText
  /\ sources' = <<>>
  /\ loadingContent' = FALSE
  /\ loadingSyllabus' = TRUE
  /\ readProgress' = Number(0)
  /\ initializing' = FALSE
  /\ coldStarts' = {[c EXCEPT !.live = FALSE] : c \in coldStarts}
  /\ contentFetches' = {[f EXCEPT !.live = FALSE] : f \in contentFetches}
  /\ canon' = NoCanon
  /\ marks' = {}
  /\ step' = Step("leave", Null)
  /\ UNCHANGED <<storeVars, call, quizVars, glossaryVars>>

\* The class switcher of the layout (part_001 lines 107 and 117) used while
\* the chapter is shown: App re-renders with the other class, the component
\* stays mounted and renders with the state it had.  The three effects have
\* a changed dependency and run in their order on that render: the
\* initialization (lines 48-107), the content effect (lines 111-140) and the
\* completion effect (lines 143-148); then the renders their updates cause.
LearnSelectClass(classId) ==
  /\ LearnView
  /\ classId # route.selectedClass
  /\ route.opens < MaxOpens
  /\ LET moved == [route EXCEPT !.selectedClass = classId, !.opens = @ + 1]
         r == [World EXCEPT !.route = moved]
         init == InitializeChapter(r)
         w2 == ContentEffect(r, init.w)
         fires == CompletionCondition(r)
         w3 == IF fires THEN CompletionEffect(r, w2) ELSE w2
     IN /\ route' = moved
        /\ Install(Commit(r, w3, init.set, fires))
  /\ UNCHANGED <<call, quizVars, glossaryVars>>

\* What a navigation leaves: the read-progress before it.
Leaving == [readProgress |-> readProgress]

\* handleNext, lines 153-159; the button is rendered below the last topic and
\* disabled while loading (lines 435-438).
HandleNext ==
  /\ LearnView
  /\ currentTopicIndex < Len(topics) - 1
  /\ ~(loadingContent \/ loadingSyllabus)
  /\ Install(Commit(World, [At("next", Leaving) EXCEPT !.currentTopicIndex = @ + 1],
                    FALSE, FALSE))
  /\ UNCHANGED <<call, route, quizVars, glossaryVars>>

\* handlePrev, lines 161-167; the button is disabled at index 0 (line 413).
HandlePrev ==
  /\ LearnView
  /\ currentTopicIndex > 0
  /\ Install(Commit(World, [At("prev", Leaving) EXCEPT !.currentTopicIndex = @ - 1],
                    FALSE, FALSE))
  /\ UNCHANGED <<call, route, quizVars, glossaryVars>>

\* handleNext called at or past the last topic: the condition of line 154
\* fails and no setter runs.  The Next button is rendered only below the last
\* topic (line 435), so this is the handler's own guard observed.
HandleNextAtLast ==
  /\ LearnView
  /\ ~(currentTopicIndex < Len(topics) - 1)
  /\ Install(At("next", Leaving))
  /\ UNCHANGED <<call, route, quizVars, glossaryVars>>

\* handlePrev called at the first topic: the condition of line 162 fails and
\* no setter runs.  The Previous button is disabled there (line 413).
HandlePrevAtFirst ==
  /\ LearnView
  /\ ~(currentTopicIndex > 0)
  /\ Install(At("prev", Leaving))
  /\ UNCHANGED <<call, route, quizVars, glossaryVars>>

\* A click on topic idx of the sidebar, lines 240-245, listed once the
\* syllabus is loaded.
SelectTopic(idx) ==
  /\ LearnView
  /\ ~loadingSyllabus
  /\ idx \in 0..(Len(topics) - 1)
  /\ Install(Commit(World, [At("select", Leaving) EXCEPT !.currentTopicIndex = idx],
                    FALSE, FALSE))
  /\ UNCHANGED <<call, route, quizVars, glossaryVars>>

\* The scroll positions, scrollable heights and viewport height of the
\* scroll events: positions inside the content, at its ends, and the
\* positions before the start and past the end that an elastic overscroll
\* reports; a content that fills the viewport and one that is longer.
ScrollTops == {-30, 0, 150, 300, 330}
ScrollHeights == {600, 900}
ClientHeights == {600}

\* Lines 171-173: (scrollTop / (scrollHeight - clientHeight)) * 100
ScrollPercent(scrollTop, scrollHeight, clientHeight) ==
  Ratio(scrollTop * 100, scrollHeight - clientHeight)

\* A plausible slip: nothing to scroll read as nothing read.
ScrollProgress_zero(scrollTop, scrollHeight, clientHeight) ==
  IF scrollHeight - clientHeight > 0
  THEN ScrollPercent(scrollTop, scrollHeight, clientHeight)
  ELSE Number(0)

\* Lines 171-176: the value handleScroll gives to setReadProgress.
ScrollProgress(scrollTop, scrollHeight, clientHeight) ==
  IF scrollHeight - clientHeight > 0
  THEN ScrollPercent(scrollTop, scrollHeight, clientHeight)
  ELSE Number(100)

\* handleScroll, lines 169-177, on a scroll event of the content area.
HandleScroll(scrollTop, scrollHeight, clientHeight) ==
  /\ LearnView
  /\ Install(Commit(World,
                    [At("scroll", [scrollTop |-> scrollTop,
                                   scrollHeight |-> scrollHeight,
                                   clientHeight |-> clientHeight])
                       EXCEPT !.readProgress =
                         ScrollProgress(scrollTop, scrollHeight, clientHeight)],
                    FALSE, FALSE))
  /\ UNCHANGED <<call, route, quizVars, glossaryVars>>

----------------------------------------------------------------------------
(* The store called directly: every key and every artifact of a small set, *)
(* with generated texts from a few hundred characters to more than the     *)
(* ceiling.                                                                *)

\* Lengths of the generated explanation bodies the provider may return.
BodyLens == {1000, 2000000, 2500000, 4600000}

StoreKeys ==
  {SyllabusKey(12, "accounts", "ch1"),
   ContentKey(12, "accounts", "ch1", 0),
   ContentKey(12, "accounts", "ch1", 1)}

StoreValues ==
  {Syllabus(<<>>), Syllabus(<<"Introduction", "Basics">>)}
    \cup {Explanation(Text("body", n), <<>>) : n \in BodyLens}

SaveCachedContentCall(key, data) ==
  /\ cacheItem' = saveCachedContent(cacheItem, key, data)
  /\ call' = [op |-> "saveCachedContent", key |-> key, data |-> data,
              overflow |-> Overflows(cacheItem, key, data), before |-> cacheItem]
  /\ UNCHANGED <<progressItem, sessionVars>>

GetCachedContentCall(key) ==
  /\ call' = [op |-> "getCachedContent", key |-> key,
              ret |-> getCachedContent(cacheItem, key)]
  /\ UNCHANGED <<storeVars, sessionVars>>

InitCache ==
  /\ progressItem = AbsentItem
  /\ cacheItem = AbsentItem
  /\ call = NoCall
  /\ route = NoRoute
  /\ QuizConstructed
  /\ LearnConstructed
  /\ GlossaryConstructed

NextCache ==
  \/ \E key \in StoreKeys, data \in StoreValues : SaveCachedContentCall(key, data)
  \/ \E key \in StoreKeys : GetCachedContentCall(key)

SpecCache == InitCache /\ [][NextCache]_vars

\* C1: cache write-through.  Right after saveCachedContent(k, v) that did not
\* take the overflow branch, getCachedContent(k) returns v, whatever the
\* container held before.
C1_WriteThrough ==
  (call.op = "saveCachedContent" /\ ~call.overflow)
    => getCachedContent(cacheItem, call.key) = call.data

\* A write without overflow that replaces a different value of the same key
\* in a container that holds other keys too.
C1_Witness ==
  /\ call.op = "saveCachedContent"
  /\ ~call.overflow
  /\ call.before.st = "json"
  /\ call.key \in DOMAIN call.before.val
  /\ call.before.val[call.key] # call.data
  /\ Cardinality(DOMAIN call.before.val) >= 2

\* C2: overflow policy.  After a saveCachedContent(k, v) that made the
\* serialized container exceed the ceiling, the container holds exactly
\* k -> v: k reads back as v, every key cached before reads as absent.
C2_OverflowFlush ==
  (call.op = "saveCachedContent" /\ call.overflow)
    => /\ cacheItem.st = "json"
       /\ DOMAIN cacheItem.val = {call.key}
       /\ getCachedContent(cacheItem, call.key) = call.data
       /\ \A k \in (DOMAIN ParseCache(call.before)) \ {call.key} :
            getCachedContent(cacheItem, k) = Null

\* An overflowing write into a container that held two other keys.
C2_Witness ==
  /\ call.op = "saveCachedContent"
  /\ call.overflow
  /\ call.before.st = "json"
  /\ Cardinality((DOMAIN call.before.val) \ {call.key}) >= 2
  /\ DOMAIN cacheItem.val = {call.key}

\* C3: the serialized size of the persisted container never exceeds the
\* ceiling, for entries of any size.
C3_SizeWithinCeiling ==
  cacheItem.st = "json" => StringifyLen(cacheItem.val) <= Ceiling

----------------------------------------------------------------------------
(* The Progress record called directly.                                    *)

\* The largest question count of the quiz results saved here.
MaxTotal == 1

StoreResults ==
  {QuizResult(s, MaxTotal, "2025-01-01T00:00:00.000Z") : s \in {0, MaxTotal}}

MarkChapterCompleteCall(classId, subjectId, chapterId) ==
  /\ progressItem' = markChapterComplete(progressItem, classId, subjectId, chapterId)
  /\ call' = [op |-> "markChapterComplete",
              key |-> ProgressKey(classId, subjectId, chapterId),
              before |-> progressItem,
              raised |-> loadProgress(progressItem) = Thrown]
  /\ UNCHANGED <<cacheItem, sessionVars>>

SaveQuizScoreCall(classId, subjectId, chapterId, result) ==
  /\ progressItem' = saveQuizScore(progressItem, classId, subjectId, chapterId, result)
  /\ call' = [op |-> "saveQuizScore",
              key |-> ProgressKey(classId, subjectId, chapterId),
              result |-> result, before |-> progressItem,
              raised |-> loadProgress(progressItem) = Thrown]
  /\ UNCHANGED <<cacheItem, sessionVars>>

LoadProgressCall ==
  /\ call' = [op |-> "loadProgress", ret |-> loadProgress(progressItem),
              before |-> progressItem,
              raised |-> loadProgress(progressItem) = Thrown]
  /\ UNCHANGED <<storeVars, sessionVars>>

\* A fresh installation, or a record a previous run left.
InitProgress ==
  /\ progressItem \in
       {AbsentItem} \cup
       {JsonItem([DefaultProgress EXCEPT !.completedChapters = <<k>>]) : k \in ProgressKeys}
  /\ cacheItem = AbsentItem
  /\ call = NoCall
  /\ route = NoRoute
  /\ QuizConstructed
  /\ LearnConstructed
  /\ GlossaryConstructed

NextProgress ==
  \/ \E c \in ClassLevels, s \in SubjectIds, ch \in ChapterIds :
       MarkChapterCompleteCall(c, s, ch)
  \/ \E c \in ClassLevels, s \in SubjectIds, ch \in ChapterIds, r \in StoreResults :
       SaveQuizScoreCall(c, s, ch, r)
  \/ LoadProgressCall

SpecProgress == InitProgress /\ [][NextProgress]_vars

Occurrences(arr, x) == Cardinality({i \in 1..Len(arr) : arr[i] = x})

\* C4: idempotent completion.  From an absent or duplicate-free record, after
\* any sequence of markChapterComplete and saveQuizScore calls,
\* completedChapters holds each key at most once, and the key just marked
\* exactly once.
C4_IdempotentCompletion ==
  progressItem.st = "json" =>
    /\ \A i, j \in 1..Len(progressItem.val.completedChapters) :
         i # j => progressItem.val.completedChapters[i] # progressItem.val.completedChapters[j]
    /\ call.op = "markChapterComplete"
         => Occurrences(progressItem.val.completedChapters, call.key) = 1

\* A key marked again while already recorded, among other keys.
C4_Witness ==
  /\ call.op = "markChapterComplete"
  /\ call.before.st = "json"
  /\ Includes(call.before.val.completedChapters, call.key)
  /\ Len(call.before.val.completedChapters) >= 2
  /\ Occurrences(progressItem.val.completedChapters, call.key) = 1

\* C5: latest-wins overwrite.  After saveQuizScore(key, r), quizScores[key] is
\* r whatever was saved for key before, the entries of the other keys are
\* those from before the call, and completedChapters is untouched.
C5_LatestWins ==
  call.op = "saveQuizScore" =>
    LET before == CurrentProgress(call.before)
        after == progressItem.val
    IN /\ progressItem.st = "json"
       /\ call.key \in DOMAIN after.quizScores
       /\ after.quizScores[call.key] = call.result
       /\ (DOMAIN after.quizScores) \ {call.key} = (DOMAIN before.quizScores) \ {call.key}
       /\ \A k \in (DOMAIN before.quizScores) \ {call.key} :
            after.quizScores[k] = before.quizScores[k]
       /\ after.completedChapters = before.completedChapters

\* A second, different result saved over the first, another key's entry beside it.
C5_Witness ==
  /\ call.op = "saveQuizScore"
  /\ call.before.st = "json"
  /\ call.key \in DOMAIN call.before.val.quizScores
  /\ call.before.val.quizScores[call.key] # call.result
  /\ (DOMAIN call.before.val.quizScores) \ {call.key} # {}
  /\ progressItem.val.quizScores[call.key] = call.result

\* Whether key is in the persisted completedChapters.
IsCompleted(item, key) ==
  item.st = "json" /\ Includes(item.val.completedChapters, key)

\* C19: completedChapters grows monotonically.  No markChapterComplete or
\* saveQuizScore call, in any interleaving, removes a key from the persisted
\* completedChapters.
C19_CompletedMonotonic ==
  [][\A k \in ProgressKeys :
       IsCompleted(progressItem, k) => IsCompleted(progressItem', k)]_vars

\* A quiz score saved, and a chapter marked, on a record that held completed
\* chapters: they are all still there.
C19_Witness ==
  /\ call.op \in {"saveQuizScore", "markChapterComplete"}
  /\ call.before.st = "json"
  /\ Len(call.before.val.completedChapters) >= 2
  /\ DOMAIN call.before.val.quizScores # {}
  /\ \A i \in 1..Len(call.before.val.completedChapters) :
       IsCompleted(progressItem, call.before.val.completedChapters[i])
  /\ Len(progressItem.val.completedChapters) >= 3

----------------------------------------------------------------------------
(* The quiz session alone, from a fresh installation.                     *)

InitQuiz ==
  /\ progressItem = AbsentItem
  /\ cacheItem = AbsentItem
  /\ call = NoCall
  /\ route = [NoRoute EXCEPT !.view = "quiz"]
  /\ QuizConstructed
  /\ LearnConstructed
  /\ GlossaryConstructed

NextQuiz ==
  \/ QuizMount
  \/ RetryQuiz
  \/ \E p \in quizFetches, qs \in QuestionLists : QuizFetchResolve(p, qs)
  \/ \E index \in 0..(OptionCount - 1) : HandleOptionSelect(index)
  \/ HandleSubmitAnswer
  \/ HandleNextQuestion

SpecQuiz == InitQuiz /\ [][NextQuiz]_vars

\* The QuizResult persisted for the chapter of the session.
Committed ==
  progressItem.val.quizScores[ProgressKey(route.selectedClass, route.subjectId,
                                          route.chapterId)]

\* C6: every QuizResult the quiz session commits satisfies 0 <= score <= total.
C6_ScoreWithinTotal ==
  progressItem.st = "json" =>
    \A k \in DOMAIN progressItem.val.quizScores :
      /\ 0 <= progressItem.val.quizScores[k].score
      /\ progressItem.val.quizScores[k].score <= progressItem.val.quizScores[k].total

\* C7: the score committed by advance() on the last question is the running
\* score, the number of questions submitted with the correct choice.
C7_CommittedIsRunningScore ==
  showResults => /\ Committed.score = score
                 /\ Committed.score = quizHist.correct

\* C8: quiz flow.  While every submitted choice was the correct one, the
\* running score is the number of submits (k after the k-th, N before the
\* final advance), and the result the final advance commits has total = N.
C8_QuizFlow ==
  /\ (route.mounted /\ quizHist.correct = quizHist.submitted)
       => score = quizHist.submitted
  /\ (QuestionView /\ isAnswered /\ quizHist.correct = quizHist.submitted)
       => score = currentQuestionIndex + 1
  /\ showResults
       => /\ Committed.total = Len(questions)
          /\ quizHist.correct = quizHist.submitted => score = Len(questions)

\* A session of MaxQuestions questions, all answered correctly, completed.
C8_Witness ==
  /\ showResults
  /\ Len(questions) = MaxQuestions
  /\ quizHist.submitted = MaxQuestions
  /\ quizHist.correct = MaxQuestions
  /\ score = MaxQuestions
  /\ Committed.total = MaxQuestions

----------------------------------------------------------------------------
(* The learning session alone, from a fresh installation.                  *)

InitLearn ==
  /\ progressItem = AbsentItem
  /\ cacheItem = AbsentItem
  /\ call = NoCall
  /\ route = [NoRoute EXCEPT !.view = "learn"]
  /\ QuizConstructed
  /\ LearnConstructed
  /\ GlossaryConstructed

NextLearn ==
  \/ LearnMount
  \/ \E c \in coldStarts, fetched \in SyllabusOutcomes : SyllabusSettles(c, fetched)
  \/ \E c \in coldStarts, result \in ExplanationOutcomes("Introduction") :
       FirstContentSettles(c, result)
  \/ \E f \in contentFetches :
       \E result \in ExplanationOutcomes(f.topic) : ContentFetchSettles(f, result)
  \/ HandleNext
  \/ HandlePrev
  \/ \E idx \in 0..(MaxTopics + 2) : SelectTopic(idx)

SpecLearn == InitLearn /\ [][NextLearn]_vars

\* The titles equal to "Introduction" when case is ignored.
IntroductionIgnoringCase == {"Introduction", "INTRODUCTION", "introduction"}

\* C9: cold-start canonicalization.  The topic list of a successful cold
\* start is "Introduction" followed by the provider's topics that are not
\* "Introduction" in any case, in the provider's order; no later element is
\* "Introduction" in any case.
C9_Canonicalization ==
  canon.done =>
    /\ Len(canon.final) >= 1
    /\ canon.final[1] = "Introduction"
    /\ Tail(canon.final)
         = SelectSeq(canon.fetched, LAMBDA t : t \notin IntroductionIgnoringCase)
    /\ \A i \in 2..Len(canon.final) : canon.final[i] \notin IntroductionIgnoringCase

\* A cold start whose provider list holds "Introduction" in another case
\* after a proper topic, and whose result is the session's topic list.
C9_Witness ==
  /\ canon.done
  /\ Len(canon.fetched) >= 2
  /\ canon.fetched[1] \notin IntroductionIgnoringCase
  /\ canon.fetched[2] \in IntroductionIgnoringCase \ {"Introduction"}
  /\ topics = canon.final
  /\ Len(topics) = 2

\* C10: completion trigger.  markChapterComplete is called only at the last
\* topic index and only when the content load of that index has finished
\* (no provider call for it is in flight).
C10_CompletionAfterLoad ==
  \A m \in marks : m.index = m.last /\ ~m.inFlight

\* The provider answered both calls of cold start c: a topic list of its own
\* and a generated body.
BothSucceeded(c) ==
  /\ c.fetchedTopics \in ProviderTopicLists
  /\ c.firstContentResult.content # ErrorBody

\* C11: pre-seed guarantee.  In the event that ends a cold start whose two
\* calls both succeeded, the one cache lookup of the content effect is for the
\* content key of index 0 and hits, no provider call is issued, and the
\* content shown is the pre-seeded one.
C11_PreSeedHit ==
  (step.ev = "join" /\ BothSucceeded(step.detail)) =>
    /\ step.lookups =
         {[key |-> ContentKey(step.detail.selectedClass, step.detail.subjectId,
                              step.detail.chapterId, 0),
           hit |-> TRUE]}
    /\ step.issued = {}
    /\ content = step.detail.firstContentResult.content
    /\ ~loadingContent

\* A cold start that succeeded with two provider topics, just joined.
C11_Witness ==
  /\ step.ev = "join"
  /\ BothSucceeded(step.detail)
  /\ Len(step.detail.fetchedTopics) = 2
  /\ Len(topics) = 3
  /\ \E l \in step.lookups : l.hit
  /\ content.len = 2500000

\* The syllabus key and the content key of index 0 of the session's chapter.
SessionSyllabusKey == SyllabusKey(route.selectedClass, route.subjectId, route.chapterId)
SessionContentKey(index) ==
  ContentKey(route.selectedClass, route.subjectId, route.chapterId, index)

\* C12: a failed syllabus call is not cached.  Once a cold start has ended
\* whose getChapterSyllabus call failed (the call returned its error
\* fallback), the syllabus key of the chapter is absent from the cache.
C12_FailedSyllabusNotCached ==
  (canon.done /\ canon.fetched = ErrorFallback)
    => getCachedContent(cacheItem, SessionSyllabusKey) = Null

\* C13: a failed explanation call is not cached.  No content key of the
\* cache maps to the error body, on the cold-start path and on the lazy path.
C13_ErrorBodyNotCached ==
  cacheItem.st = "json" =>
    \A k \in DOMAIN cacheItem.val :
      cacheItem.val[k].kind = "explanation" => cacheItem.val[k].content # ErrorBody

\* C17: cold-start failure.  In the event that ends a cold start of which a
\* call failed, the topic list becomes a single-element list, neither the
\* syllabus nor the content of index 0 is cached, and the content effect
\* issues the provider call for index 0.
C17_ColdStartFallback ==
  (step.ev = "join"
     /\ (step.detail.fetchedTopics = ErrorFallback
           \/ step.detail.firstContentResult.content = ErrorBody)) =>
    /\ Len(topics) = 1
    /\ getCachedContent(cacheItem, SessionSyllabusKey) = Null
    /\ getCachedContent(cacheItem, SessionContentKey(0)) = Null
    /\ \E f \in step.issued : f.contentKey = SessionContentKey(0)

----------------------------------------------------------------------------
(* The quiz session or the glossary, from a fresh installation.            *)

InitLists ==
  /\ progressItem = AbsentItem
  /\ cacheItem = AbsentItem
  /\ call = NoCall
  /\ route \in {[NoRoute EXCEPT !.view = "quiz"], [NoRoute EXCEPT !.view = "glossary"]}
  /\ QuizConstructed
  /\ LearnConstructed
  /\ GlossaryConstructed

NextGlossary ==
  \/ GlossaryMount
  \/ \E subId \in GlossarySubjects : SelectSubject(subId)
  \/ \E classId \in ClassLevels : GlossarySelectClass(classId)
  \/ \E f \in glossaryFetches :
       \E newTerms \in TermLists(f.classId, f.subId) : GlossaryFetchResolve(f, newTerms)

NextLists == NextQuiz \/ NextGlossary

SpecLists == InitLists /\ [][NextLists]_vars

\* No quiz key and no glossary key of the cache maps to an empty list.
NoEmptyListCached ==
  cacheItem.st = "json" =>
    \A k \in DOMAIN cacheItem.val :
      /\ cacheItem.val[k].kind = "quiz" => Len(cacheItem.val[k].questions) > 0
      /\ cacheItem.val[k].kind = "glossary" => Len(cacheItem.val[k].terms) > 0

\* A step in which a quiz call or a glossary call settles with the empty
\* list leaves the cache as it was.
EmptyListLeavesCache ==
  (\/ (quizFetches' # quizFetches /\ quizFetches' \subseteq quizFetches
         /\ questions' = <<>>)
   \/ (glossaryFetches' # glossaryFetches /\ glossaryFetches' \subseteq glossaryFetches
         /\ terms' = <<>>))
    => cacheItem' = cacheItem

\* C14: an empty quiz or glossary result is not cached.  When the quiz or
\* the glossary provider call fails or returns the empty list the cache is
\* left unchanged, and no quiz or glossary key ever maps to an empty list.
C14_EmptyListNotCached == []NoEmptyListCached /\ [][EmptyListLeavesCache]_vars

\* The glossary of a subject settled with the empty list while the glossary
\* of the other subject is cached: the cache holds that one entry only.
C14_Witness ==
  /\ route.view = "glossary" /\ route.mounted
  /\ glossaryFetches = {} /\ ~glossaryLoading
  /\ terms = <<>>
  /\ cacheItem.st = "json"
  /\ \E other \in GlossarySubjects \ {selectedSubject} :
       DOMAIN cacheItem.val = {GlossaryKey(route.selectedClass, other)}

----------------------------------------------------------------------------
(* The store called directly, on items a fresh installation has (absent)   *)
(* or on items whose bytes do not parse.                                   *)

\* The artifacts written here: a syllabus and a short explanation.
CorruptionValues ==
  {Syllabus(<<"Introduction", "Basics">>), Explanation(Text("body", 1000), <<>>)}

InitCorruption ==
  /\ progressItem \in {AbsentItem, CorruptItem}
  /\ cacheItem \in {AbsentItem, CorruptItem}
  /\ call = NoCall
  /\ route = NoRoute
  /\ QuizConstructed
  /\ LearnConstructed
  /\ GlossaryConstructed

NextCorruption ==
  \/ \E ch \in ChapterIds : MarkChapterCompleteCall(12, "accounts", ch)
  \/ \E ch \in ChapterIds, r \in StoreResults : SaveQuizScoreCall(12, "accounts", ch, r)
  \/ LoadProgressCall
  \/ \E key \in StoreKeys, data \in CorruptionValues : SaveCachedContentCall(key, data)
  \/ \E key \in StoreKeys : GetCachedContentCall(key)

SpecCorruption == InitCorruption /\ [][NextCorruption]_vars

\* C15: a Progress record that does not parse is never fatal.  On such a
\* record loadProgress, markChapterComplete and saveQuizScore raise no error
\* and do what they do on an absent record: loadProgress returns null, the
\* other two write the empty defaults with the key marked or the result saved.
C15_CorruptProgressAsAbsent ==
  (call.op \in {"loadProgress", "markChapterComplete", "saveQuizScore"}
     /\ call.before = CorruptItem) =>
    /\ ~call.raised
    /\ call.op = "loadProgress" => call.ret = loadProgress(AbsentItem)
    /\ call.op = "markChapterComplete" =>
         progressItem =
           JsonItem([DefaultProgress EXCEPT !.completedChapters = <<call.key>>])
    /\ call.op = "saveQuizScore" =>
         progressItem =
           JsonItem([DefaultProgress EXCEPT
                       !.quizScores = SetProp(EmptyObject, call.key, call.result)])

\* C16: on a cache container that does not parse, getCachedContent returns
\* null for every key and raises no error.
C16_CorruptCacheReadsAbsent ==
  cacheItem.st = "corrupt" =>
    /\ \A k \in StoreKeys : getCachedContent(cacheItem, k) = Null
    /\ call.op = "getCachedContent" => call.ret = Null

\* A read of a container that does not parse.
C16_Witness ==
  /\ cacheItem = CorruptItem
  /\ call.op = "getCachedContent"
  /\ call.ret = Null

----------------------------------------------------------------------------
(* The learning session with its scroll events, the provider answering     *)
(* with one syllabus and short bodies.                                     *)

ReadingSyllabi == {<<"Basics", "Advanced">>}

ReadingOutcomes(topic) == {Explanation(Text(topic, 1000), <<Source(topic)>>)}

NextReading ==
  \/ LearnMount
  \/ \E c \in coldStarts, fetched \in ReadingSyllabi : SyllabusSettles(c, fetched)
  \/ \E c \in coldStarts, result \in ReadingOutcomes("Introduction") :
       FirstContentSettles(c, result)
  \/ \E f \in contentFetches :
       \E result \in ReadingOutcomes(f.topic) : ContentFetchSettles(f, result)
  \/ HandleNext
  \/ HandlePrev
  \/ HandleNextAtLast
  \/ HandlePrevAtFirst
  \/ \E idx \in 0..2 : SelectTopic(idx)
  \/ \E scrollTop \in ScrollTops, scrollHeight \in ScrollHeights,
        clientHeight \in ClientHeights :
       HandleScroll(scrollTop, scrollHeight, clientHeight)

SpecReading == InitLearn /\ [][NextReading]_vars

----------------------------------------------------------------------------
(* The chapter opened, left and opened again, the provider answering with  *)
(* one syllabus and with short or long bodies.                             *)

ReopenSyllabi == {<<"Basics">>}

ReopenOutcomes(topic) ==
  {Explanation(Text(topic, n), <<Source(topic)>>) : n \in LearnBodyLens}

NextReopen ==
  \/ LearnMount
  \/ LearnLeave
  \/ \E c \in coldStarts, fetched \in ReopenSyllabi : SyllabusSettles(c, fetched)
  \/ \E c \in coldStarts, result \in ReopenOutcomes("Introduction") :
       FirstContentSettles(c, result)
  \/ \E f \in contentFetches :
       \E result \in ReopenOutcomes(f.topic) : ContentFetchSettles(f, result)
  \/ HandleNext
  \/ HandlePrev
  \/ \E idx \in 0..1 : SelectTopic(idx)

SpecReopen == InitLearn /\ [][NextReopen]_vars

\* C18: cached syllabus.  In the event that opens a chapter whose non-empty
\* syllabus is cached, no cold start (no syllabus call, no first-topic call)
\* is begun, the topic list is the cached list and the cache is as it was.
C18_CachedSyllabusOpen ==
  (step.ev = "open" /\ step.detail.hit) =>
    /\ {c \in coldStarts : c.live} = {}
    /\ ~loadingSyllabus
    /\ topics = step.detail.cached.topics
    /\ cacheItem = step.detail.before

\* The chapter opened a second time on the syllabus its first cold start cached.
C18_Witness ==
  /\ step.ev = "open"
  /\ step.detail.hit
  /\ route.opens = 2
  /\ Len(topics) >= 2
  /\ topics = getCachedContent(cacheItem, SessionSyllabusKey).topics

\* C20: read-progress is within [0, 100] in every reachable state, for every
\* scroll event, positions below 0 or beyond height - viewport included.
C20_ReadProgressInRange ==
  Leq(Number(0), readProgress) /\ Leq(readProgress, Number(100))

\* C21: read-progress boundary.  A scroll event on a content area whose
\* scrollable height minus viewport height is not positive sets
\* read-progress to exactly 100, whatever the scroll position.
C21_NothingToScroll ==
  (step.ev = "scroll" /\ step.detail.scrollHeight - step.detail.clientHeight <= 0)
    => readProgress = Number(100)

\* A scroll event at a position other than 0 on a content that fills the
\* viewport.
C21_Witness ==
  /\ step.ev = "scroll"
  /\ step.detail.scrollHeight = step.detail.clientHeight
  /\ step.detail.scrollTop # 0
  /\ readProgress = Number(100)

\* C23: a change of the current topic index (Next, Previous, a topic of the
\* sidebar) leaves read-progress at 0, before any later scroll event; a step
\* of these handlers that keeps the index keeps read-progress.
C23_IndexChangeResetsProgress ==
  [][/\ currentTopicIndex' # currentTopicIndex => readProgress' = Number(0)
     /\ (step'.ev \in {"next", "prev"} /\ currentTopicIndex' = currentTopicIndex)
          => readProgress' = readProgress]_vars

\* The learner has moved to the second topic after a scroll event had left
\* read-progress at 50.
C23_Witness ==
  /\ step.ev \in {"next", "prev", "select"}
  /\ step.detail.readProgress = Number(50)
  /\ currentTopicIndex = 1
  /\ readProgress = Number(0)

\* C26: a content fetch writes under its own key.  When the fetch started
\* for index i of a chapter settles, the cache then holds its result under
\* the content key of that chapter and index i, whatever the current index
\* is by then, and no other key of the cache is written.
C26_FetchWritesOwnKey ==
  [][(step' # step /\ step'.ev \in {"content", "detached"} /\ step'.detail # Null)
       => LET f == step'.detail.fetch
              own == ContentKey(f.selectedClass, f.subjectId, f.chapterId, f.index)
          IN /\ getCachedContent(cacheItem', own) = step'.detail.result
             /\ \A k \in DOMAIN ParseCache(cacheItem') \ {own} :
                  /\ k \in DOMAIN ParseCache(cacheItem)
                  /\ ParseCache(cacheItem')[k] = ParseCache(cacheItem)[k]]_vars

\* A fetch started for one topic has settled after the learner moved to
\* another: its result is under its own key, the current topic's key is
\* absent from the cache.
C26_Witness ==
  /\ step.ev = "content"
  /\ step.detail # Null
  /\ step.detail.fetch.index # currentTopicIndex
  /\ getCachedContent(cacheItem, step.detail.fetch.contentKey) = step.detail.result
  /\ getCachedContent(cacheItem, SessionContentKey(currentTopicIndex)) = Null

\* C27: selectOption.  A tentative choice is made only while the current
\* question is unanswered, and making it changes neither the score, the
\* question index, the answered flag nor a persisted record; once the
\* question is answered the choice stays until it is cleared together with
\* the answered flag (advance, retry).
C27_SelectOptionFrame ==
  [][/\ (selectedOption' # selectedOption /\ selectedOption' # NoOption)
          => /\ ~isAnswered
             /\ UNCHANGED <<score, currentQuestionIndex, isAnswered, showResults,
                            questions, progressItem, cacheItem>>
     /\ (isAnswered /\ selectedOption' # selectedOption)
          => (selectedOption' = NoOption /\ ~isAnswered')]_vars

\* On the second question the learner has changed a first tentative choice
\* for another, the first question's score standing.
C27_Witness ==
  /\ QuestionView
  /\ currentQuestionIndex = 1
  /\ ~isAnswered
  /\ selectedOption # NoOption
  /\ selectedOption # CorrectAnswer
  /\ score = 1
  /\ progressItem = AbsentItem

\* C28: submitAnswer.  The answered flag is set only with an option
\* selected, and setting it raises the running score by 1 when the selected
\* index is the question's correct index and by 0 otherwise; with no option
\* selected no step changes the answered flag, the score, the question
\* index, the questions or a persisted record.
C28_SubmitAnswer ==
  [][/\ (~isAnswered /\ isAnswered')
          => /\ selectedOption # NoOption
             /\ score' = score + (IF selectedOption = CorrectAnswer THEN 1 ELSE 0)
             /\ UNCHANGED <<selectedOption, currentQuestionIndex, showResults,
                            questions, progressItem, cacheItem>>
     /\ (QuestionView /\ selectedOption = NoOption)
          => UNCHANGED <<isAnswered, score, currentQuestionIndex, showResults,
                         questions, loading, progressItem, cacheItem>>]_vars

\* Two questions submitted, the first with the correct choice and the second
\* with a wrong one.
C28_Witness ==
  /\ QuestionView
  /\ isAnswered
  /\ currentQuestionIndex = 1
  /\ selectedOption # CorrectAnswer
  /\ quizHist.submitted = 2
  /\ score = 1

\* C29: advance before the last question.  From an answered question that
\* is not the last, the step moves to the next question, clears the
\* tentative choice and the answered flag, keeps the running score, does not
\* show the results and writes nothing to the progress record.
C29_AdvanceNotLast ==
  [][(QuestionView /\ isAnswered /\ currentQuestionIndex < Len(questions) - 1)
       => /\ currentQuestionIndex' = currentQuestionIndex + 1
          /\ selectedOption' = NoOption
          /\ ~isAnswered'
          /\ score' = score
          /\ ~showResults'
          /\ UNCHANGED <<questions, progressItem, cacheItem>>]_vars

\* The learner has advanced to the second question after a correct first
\* answer: nothing is selected and nothing is persisted.
C29_Witness ==
  /\ QuestionView
  /\ currentQuestionIndex = 1
  /\ selectedOption = NoOption
  /\ ~isAnswered
  /\ quizHist.submitted = 1
  /\ score = 1
  /\ progressItem = AbsentItem

\* The no-questions view is rendered: lines 103 passed, 113 taken.
NoQuestionsView ==
  /\ route.view = "quiz" /\ route.mounted
  /\ ~loading /\ Len(questions) = 0

\* No persisted QuizResult has total 0.
NoEmptyResult ==
  progressItem.st = "json" =>
    \A k \in DOMAIN progressItem.val.quizScores :
      progressItem.val.quizScores[k].total # 0

\* C30: an empty question list.  In the no-questions view the results are
\* not shown; the only step from it is the retry, which shows the loading
\* view and commits nothing; and no persisted QuizResult has total 0.
C30_NoQuestions ==
  /\ [](NoQuestionsView => ~showResults)
  /\ []NoEmptyResult
  /\ [][NoQuestionsView
          => /\ loading' /\ questions' = <<>> /\ ~showResults'
             /\ progressItem' = progressItem]_vars

\* The call has yielded the empty list: the no-questions view, nothing
\* cached and nothing persisted.
C30_Witness ==
  /\ NoQuestionsView
  /\ quizFetches = {}
  /\ ~showResults
  /\ cacheItem = AbsentItem
  /\ progressItem = AbsentItem

\* The calls of cold start c that failed: the syllabus call returned its
\* error fallback, the explanation call its error body.
SyllabusFailed(c) == c.fetchedTopics = ErrorFallback
FirstContentFailed(c) == c.firstContentResult.content = ErrorBody

\* The first of the two calls of a cold start to settle changes neither the
\* topic list nor the cache.
JoinWaitsForBoth ==
  (step'.ev = "settle" /\ coldStarts' # coldStarts) => UNCHANGED <<topics, cacheItem>>

\* In the event that ends a cold start of which exactly one call failed, the
\* result of the other call is not applied.
NoPartialResult ==
  (step.ev = "join") =>
    /\ (SyllabusFailed(step.detail) /\ ~FirstContentFailed(step.detail))
         => getCachedContent(cacheItem, SessionContentKey(0)) = Null
    /\ (FirstContentFailed(step.detail) /\ ~SyllabusFailed(step.detail))
         => /\ topics # FinalTopics(step.detail.fetchedTopics)
            /\ getCachedContent(cacheItem, SessionSyllabusKey) = Null

\* C25: cold-start join.  The topic list and the two cache entries are
\* written only when both calls of the cold start have settled, in either
\* order, and when one of the two failed the result of the other is not
\* applied (no syllabus without content, no content without syllabus).
C25_ColdStartJoin ==
  /\ [][JoinWaitsForBoth]_vars
  /\ []NoPartialResult

-----------------------------------------------------------------------------
(* The chapter shown while the class is switched, the provider answering   *)
(* with a syllabus of no title or one of two titles and with short bodies. *)

SwitchSyllabi == {<<>>, <<"Basics">>, <<"Advanced">>}

SwitchOutcomes(topic) == {Explanation(Text(topic, 1000), <<Source(topic)>>)}

NextSwitch ==
  \/ LearnMount
  \/ \E classId \in ClassLevels : LearnSelectClass(classId)
  \/ \E c \in coldStarts, fetched \in SwitchSyllabi : SyllabusSettles(c, fetched)
  \/ \E c \in coldStarts, result \in SwitchOutcomes("Introduction") :
       FirstContentSettles(c, result)
  \/ \E f \in contentFetches :
       \E result \in SwitchOutcomes(f.topic) : ContentFetchSettles(f, result)
  \/ HandleNext
  \/ HandlePrev
  \/ HandleNextAtLast
  \/ HandlePrevAtFirst
  \/ \E idx \in 0..1 : SelectTopic(idx)

SpecSwitch == InitLearn /\ [][NextSwitch]_vars

\* With a non-empty topic list the current index is one of its indices.
IndexInRange ==
  Len(topics) > 0 => (0 <= currentTopicIndex /\ currentTopicIndex <= Len(topics) - 1)

\* handleNext moves the index up by exactly 1 below the last topic and keeps
\* it otherwise.
NextStepsByOne ==
  (step'.ev = "next" /\ step' # step) =>
    currentTopicIndex' = IF currentTopicIndex < Len(topics) - 1
                         THEN currentTopicIndex + 1 ELSE currentTopicIndex

\* handlePrev moves the index down by exactly 1 above the first topic and
\* keeps it otherwise.
PrevStepsByOne ==
  (step'.ev = "prev" /\ step' # step) =>
    currentTopicIndex' = IF currentTopicIndex > 0
                         THEN currentTopicIndex - 1 ELSE currentTopicIndex

\* C22: navigation bounds.  next() and previous() move the index by exactly
\* 1 inside the list and keep it at the boundaries, and with a non-empty
\* topic list 0 <= index <= last in every reachable state, the chapter
\* initialized again for another class included.
C22_NavigationBounds ==
  /\ [][NextStepsByOne /\ PrevStepsByOne]_vars
  /\ []IndexInRange

\* An initialization of the chapter shown is under way: a cold start issued
\* for it has not ended.
ColdStartUnderWay ==
  \E c \in coldStarts : c.live /\ c.opening = route.opens

\* C24: the content path waits for the initialization.  While a cold start
\* of the chapter shown is under way, no event looks up a content key and no
\* event issues a provider call for a topic (the cold start's own first-topic
\* call apart), a topic list of a previous chapter being held or not.
C24_NoContentPathWhileInitializing ==
  ColdStartUnderWay => (step.lookups = {} /\ step.issued = {})

\* C33: markChapterComplete on a key already completed.  After a call whose
\* key was in completedChapters the persisted record is the record of before
\* the call, and after every call quizScores is what it was.
C33_MarkPresentWritesNothing ==
  call.op = "markChapterComplete" =>
    /\ (call.before.st = "json"
          /\ Includes(call.before.val.completedChapters, call.key))
         => progressItem = call.before
    /\ CurrentProgress(progressItem).quizScores
         = CurrentProgress(call.before).quizScores

\* A chapter marked again, on a record that holds it among others and a quiz
\* score: the record is the one of before.
C33_Witness ==
  /\ call.op = "markChapterComplete"
  /\ call.before.st = "json"
  /\ Len(call.before.val.completedChapters) >= 2
  /\ call.before.val.completedChapters[1] = call.key
  /\ DOMAIN call.before.val.quizScores # {}
  /\ progressItem = call.before

\* C34: the cache recovers from corruption on the next write.  After
\* saveCachedContent(k, v) on a container that does not parse, the container
\* parses, holds k -> v and getCachedContent(k) returns v.
C34_CorruptCacheRecovers ==
  (call.op = "saveCachedContent" /\ call.before.st = "corrupt") =>
    /\ cacheItem.st = "json"
    /\ getCachedContent(cacheItem, call.key) = call.data

-----------------------------------------------------------------------------
(* The quiz shown while the class is switched, the provider answering with *)
(* no, one or two questions.                                               *)

SwitchQuestionLists == {<<>>, <<Question(0)>>, <<Question(0), Question(1)>>}

NextQuizSwitch ==
  \/ QuizMount
  \/ RetryQuiz
  \/ \E classId \in ClassLevels : QuizSelectClass(classId)
  \/ \E p \in quizFetches, qs \in SwitchQuestionLists : QuizFetchResolve(p, qs)
  \/ \E index \in 0..1 : HandleOptionSelect(index)
  \/ HandleSubmitAnswer
  \/ HandleNextQuestion

SpecQuizSwitch == InitQuiz /\ [][NextQuizSwitch]_vars

\* The cache key of the quiz of the chapter shown.
SessionQuizKey == QuizKey(route.selectedClass, route.subjectId, route.chapterId)

\* C38: a stale quiz call.  When a provider call started for another class
\* or chapter than the one shown settles, it replaces neither the question
\* list of the session nor its loading flag.
C38_StaleQuizFetch ==
  [][\A p \in quizFetches \ quizFetches' :
       p.cacheKey # SessionQuizKey => (questions' = questions /\ loading' = loading)]_vars

\* C39: the running score is at most the number of questions submitted.  In
\* every state of a mounted quiz session, score <= currentQuestionIndex + 1
\* and score <= the number of questions.
C39_ScoreWithinSubmitted ==
  (route.view = "quiz" /\ route.mounted) =>
    /\ 0 <= score
    /\ score <= currentQuestionIndex + 1
    /\ score <= Len(questions)

\* Both questions of a quiz answered with the correct choice, the second
\* still on screen: the score is the number of questions.
C39_Witness ==
  /\ QuestionView
  /\ isAnswered
  /\ currentQuestionIndex = 1
  /\ Len(questions) = 2
  /\ score = 2

\* C31: retry from Completed.  The step that leaves the results view starts
\* the same chapter again at question 0 with score 0, no tentative choice
\* and the answered flag cleared; the questions come from the cache, no
\* provider call is issued and the question view is shown; the persisted
\* record is untouched, and it changes only in a step that shows results.
C31_RetryFromCompleted ==
  [][/\ (showResults /\ ~showResults')
          => /\ currentQuestionIndex' = 0 /\ score' = 0
             /\ selectedOption' = NoOption /\ ~isAnswered'
             /\ questions' = questions /\ ~loading'
             /\ quizFetches' = quizFetches
             /\ UNCHANGED <<route, progressItem, cacheItem>>
     /\ (progressItem' # progressItem) => showResults']_vars

\* The learner retried a completed quiz that had a wrong answer in it and
\* selected an option of the first question: the earlier result is still
\* the persisted one.
C31_Witness ==
  /\ QuestionView
  /\ currentQuestionIndex = 0
  /\ score = 0
  /\ ~isAnswered
  /\ selectedOption = CorrectAnswer
  /\ quizFetches = {}
  /\ progressItem.st = "json"
  /\ Committed.total = MaxQuestions
  /\ Committed.score < MaxQuestions

\* C35: the content shown belongs to the current index.  When the call for
\* one index settles after the learner has moved to another index, the step
\* changes neither the content and sources on screen nor the loading flag
\* of the index now shown.
C35_LateFetchLeavesDisplay ==
  [][(/\ step'.ev = "content"
      /\ step' # step
      /\ step'.detail.fetch.index # currentTopicIndex)
       => /\ content' = content
          /\ sources' = sources
          /\ loadingContent' = loadingContent]_vars

\* C36: completion belongs to the chapter whose list was read.  Every
\* markChapterComplete call of a session marks the chapter that the topic
\* list of the calling render was loaded for, at the last index of that
\* list; a list held over from the previous class or chapter never has the
\* new chapter marked complete.
C36_MarksOwnChapter ==
  \A m \in marks : m.index = m.last /\ m.owner = m.chapter

\* The topic list in state was loaded for the chapter of the route.
OwnTopicList ==
  /\ LearnView
  /\ ~loadingSyllabus
  /\ canon.owner = SyllabusKey(route.selectedClass, route.subjectId, route.chapterId)

\* C37: cache coherence.  While the session holds the topic list of its
\* chapter, every explanation cached under the content key of an index of
\* that list was generated for the title at that index.
C37_CacheCoherence ==
  OwnTopicList =>
    \A i \in 0..(Len(topics) - 1) :
      LET cachedData == getCachedContent(cacheItem,
                          ContentKey(route.selectedClass, route.subjectId,
                                     route.chapterId, i))
      IN (Truthy(cachedData) /\ cachedData.content # ErrorBody)
           => cachedData.content.id = topics[i + 1]

-----------------------------------------------------------------------------
(* Learning and quiz sessions under the assumption that every provider     *)
(* call settles: weak fairness of the continuations of the calls in        *)
(* flight.  No fairness is asked of the learner's events.                  *)

LiveSyllabi == {<<>>, <<"Basics">>}

LiveOutcomes(topic) == {Explanation(Text(topic, 1000), <<Source(topic)>>)}

LiveQuestionLists == {<<>>, <<Question(0)>>}

InitLive ==
  /\ progressItem = AbsentItem
  /\ cacheItem = AbsentItem
  /\ call = NoCall
  /\ route \in {[NoRoute EXCEPT !.view = "learn"], [NoRoute EXCEPT !.view = "quiz"]}
  /\ QuizConstructed
  /\ LearnConstructed
  /\ GlossaryConstructed

\* getChapterSyllabus of some cold start settles.
SomeSyllabusSettles ==
  \E c \in coldStarts, fetched \in LiveSyllabi : SyllabusSettles(c, fetched)

\* The first-topic call of some cold start settles.
SomeFirstContentSettles ==
  \E c \in coldStarts, result \in LiveOutcomes("Introduction") :
    FirstContentSettles(c, result)

\* generateTopicExplanation of some run of the content effect settles.
SomeContentFetchSettles ==
  \E f \in contentFetches :
    \E result \in LiveOutcomes(f.topic) : ContentFetchSettles(f, result)

\* generateChapterQuiz of some loadQuiz settles.
SomeQuizFetchSettles ==
  \E p \in quizFetches, qs \in LiveQuestionLists : QuizFetchResolve(p, qs)

NextLive ==
  \/ LearnMount
  \/ \E classId \in ClassLevels : LearnSelectClass(classId)
  \/ SomeSyllabusSettles
  \/ SomeFirstContentSettles
  \/ SomeContentFetchSettles
  \/ HandleNext
  \/ HandlePrev
  \/ \E idx \in 0..1 : SelectTopic(idx)
  \/ QuizMount
  \/ RetryQuiz
  \/ \E classId \in ClassLevels : QuizSelectClass(classId)
  \/ SomeQuizFetchSettles
  \/ \E index \in 0..1 : HandleOptionSelect(index)
  \/ HandleSubmitAnswer
  \/ HandleNextQuestion

\* The settling of a call as it shows in the calls in flight: the syllabus
\* call of a cold start leaves it, with the cold start when its first-topic
\* call has settled before.
SyllabusCallSettled ==
  \E c \in coldStarts, fetched \in LiveSyllabi :
    /\ c.fetchedTopics = Pending
    /\ coldStarts' = (coldStarts \ {c}) \cup
                       (IF c.firstContentResult # Null THEN {}
                        ELSE {[c EXCEPT !.fetchedTopics = fetched]})

\* The same for the first-topic call of a cold start.
FirstContentCallSettled ==
  \E c \in coldStarts, result \in LiveOutcomes("Introduction") :
    /\ c.firstContentResult = Null
    /\ coldStarts' = (coldStarts \ {c}) \cup
                       (IF c.fetchedTopics # Pending THEN {}
                        ELSE {[c EXCEPT !.firstContentResult = result]})

\* A call of the content effect leaves the calls in flight.
ContentCallSettled ==
  \E f \in contentFetches : contentFetches' = contentFetches \ {f}

\* A call of loadQuiz leaves the calls in flight.
QuizCallSettled ==
  \E p \in quizFetches : quizFetches' = quizFetches \ {p}

\* Every provider call in flight eventually resolves or rejects: the steps
\* that take a call out of the calls in flight are those of its .then or
\* .catch, and they are enabled as long as the call is in flight.
CallsSettle ==
  /\ WF_coldStarts(SyllabusCallSettled)
  /\ WF_coldStarts(FirstContentCallSettled)
  /\ WF_contentFetches(ContentCallSettled)
  /\ WF_quizFetches(QuizCallSettled)

SpecLive == InitLive /\ [][NextLive]_vars /\ CallsSettle

\* The quiz view is rendered and has been committed.
QuizView == route.view = "quiz" /\ route.mounted

\* C32: loads end.  With every provider call settling, a learning session
\* that is initializing its syllabus eventually is not, a learning session
\* that is loading content eventually is not, and a quiz session that is
\* loading eventually is not.
C32_LoadsEnd ==
  /\ (LearnView /\ loadingSyllabus) ~> ~loadingSyllabus
  /\ (LearnView /\ loadingContent) ~> ~loadingContent
  /\ (QuizView /\ loading) ~> ~loading

\* A learning session after its cold start and after a content call for the
\* second topic have settled.
C32_Witness ==
  /\ LearnView
  /\ ~loadingSyllabus
  /\ ~loadingContent
  /\ coldStarts = {}
  /\ contentFetches = {}
  /\ step.ev = "content"
  /\ currentTopicIndex = 1
  /\ content.id = "Basics"

====
